---- MODULE Spec2Model ----
(***************************************************************************)
(* Worktree engine (crates/worktree/src/worktree.rs): snapshot data model, *)
(* delta builder / applier, remote relay and background scanner.           *)
(*                                                                         *)
(* Paths are sequences of file names, relative to the worktree root        *)
(* (<<>> is the root).  A SumTree is modelled as the set of its items; the *)
(* batch operations on it are modelled by what they do to that set.        *)
(***************************************************************************)
EXTENDS Integers, Sequences, FiniteSets, TLC

VARIABLES
    \* ---- the environment of a local worktree ----
    fs,                      \* files below the root, .gitignore content, git state
    fs_events,               \* paths reported by the watcher, not yet received
    scan_requests,           \* content of the scan_requests channel
    budget,                  \* moves left to the environment, by kind
    num_cpus,                \* number of workers the executor gives a pool
    \* ---- BackgroundScanner (worktree.rs:4008-4021) ----
    next_entry_id,           \* the shared entry id counter
    state,                   \* BackgroundScannerState, guarded by its mutex
    phase,                   \* BackgroundScannerPhase
    scanner,                 \* position of the task running BackgroundScanner::run
    scan_jobs,               \* content of the scan job channel
    ignore_queue,            \* content of the ignore job channel
    workers,                 \* position and locals of each worker of a pool
    git_task,                \* the task of update_git_repositories updating statuses
    scan_states,             \* content of the status_updates channel
    \* ---- LocalWorktree (worktree.rs:108-124) ----
    worktree,                \* snapshot, is_scanning, whether an observer is attached
    snapshots_rx,            \* content of the observer's snapshots channel
    observer,                \* the task feeding the observer's callback
    \* ---- RemoteWorktree (worktree.rs:138-150) ----
    background_snapshot,     \* background_snapshot.0 : Snapshot
    pending_updates,         \* background_snapshot.1 : Vec<UpdateWorktree>
    remote_snapshot,         \* RemoteWorktree.snapshot
    updates_rx,              \* content of the background_updates channel
    snapshot_updated,        \* the watch channel holds an unseen value
    update_observer,         \* None, or the queue of the observer's channel
    delivered,               \* updates handed to the observer's callback
    host,                    \* the host: scan_id of its last update, updates sent
    reflected,               \* how many updates each snapshot of the relay reflects
    updates_tx,              \* RemoteWorktree.updates_tx is Some
    snapshot_subscriptions,  \* RemoteWorktree.snapshot_subscriptions
    disconnected,            \* RemoteWorktree.disconnected
    awaiters,                \* the futures wait_for_snapshot returned
    entry_tasks              \* tasks followed step by step (insert_entry, delete_entry, ...)

envVars == <<fs, fs_events, scan_requests, budget, num_cpus>>
scannerVars == <<next_entry_id, state, phase, scanner, scan_jobs, ignore_queue, workers,
                 git_task, scan_states>>
localVars == <<envVars, scannerVars, worktree, snapshots_rx, observer>>
subscriptionVars == <<updates_tx, snapshot_subscriptions, disconnected, awaiters, entry_tasks>>
mirrorVars == <<background_snapshot, pending_updates, remote_snapshot, updates_rx,
                snapshot_updated, update_observer, delivered, host, reflected,
                updates_tx, snapshot_subscriptions, disconnected, awaiters>>
remoteVars == <<background_snapshot, pending_updates, remote_snapshot, updates_rx,
                snapshot_updated, update_observer, delivered, host, reflected,
                subscriptionVars>>

vars == <<localVars, remoteVars>>

\* Option<T>: a set with at most one element
None == {}
Some(x) == {x}
Unwrap(option) == CHOOSE x \in option : TRUE
NoBranch == "None"
NoName == ""

\* ------------------------------------------------------------------------
\* Bounds
\* ------------------------------------------------------------------------
MaxEntryId == 3
MaxScanId == 2

\* ------------------------------------------------------------------------
\* Paths
\* ------------------------------------------------------------------------
EMPTY_PATH == <<>>
DOT_GIT == ".git"
GITIGNORE == ".gitignore"

\* Path::starts_with
starts_with(path, base) ==
    /\ Len(base) <= Len(path)
    /\ SubSeq(path, 1, Len(base)) = base

\* Path::parent (None for the empty path)
parent(path) == IF Len(path) = 0 THEN None ELSE Some(SubSeq(path, 1, Len(path) - 1))

\* Path::file_name
file_name(path) == IF Len(path) = 0 THEN NoName ELSE path[Len(path)]

\* Path::join
join(base, name) == Append(base, name)

\* Path::to_string_lossy, component by component: a name that is not valid
\* UTF-8 has its invalid bytes replaced by U+FFFD.
NonUtf8Name == "caf\\xe9"
LossyName(name) == IF name = NonUtf8Name THEN "caf\\ufffd" ELSE name
to_string_lossy(path) == [i \in 1..Len(path) |-> LossyName(path[i])]

\* ------------------------------------------------------------------------
\* SumTree<T> as the set of its items.
\* ------------------------------------------------------------------------
Insert(key, item) == [op |-> "Insert", key |-> key, item |-> Some(item)]
Remove(key) == [op |-> "Remove", key |-> key, item |-> None]

\* SumTree::edit on a tree keyed by path: every item whose key occurs in an
\* edit is dropped, every inserted item is added (an Insert wins over a
\* Remove of the same key in the same batch).
edit_by_path(tree, edits) ==
    {x \in tree : \A e \in edits : e.key # x.path}
        \cup {Unwrap(e.item) : e \in {d \in edits : d.op = "Insert"}}

\* SumTree::edit on a tree keyed by id.
edit_by_id(tree, edits) ==
    {x \in tree : \A e \in edits : e.key # x.id}
        \cup {Unwrap(e.item) : e \in {d \in edits : d.op = "Insert"}}

\* SumTree::get
get_by_path(tree, path) ==
    IF \E x \in tree : x.path = path
    THEN Some(CHOOSE x \in tree : x.path = path)
    ELSE None

get_by_id(tree, id) ==
    IF \E x \in tree : x.id = id
    THEN Some(CHOOSE x \in tree : x.id = id)
    ELSE None

\* ------------------------------------------------------------------------
\* Entries
\* ------------------------------------------------------------------------
PathEntry(id, path, is_ignored, scan_id) ==
    [id |-> id, path |-> path, is_ignored |-> is_ignored, scan_id |-> scan_id]

\* EntryKind::is_dir
kind_is_dir(kind) == kind \in {"Dir", "PendingDir", "UnloadedDir"}

\* the receiver's file_scan_inclusions matcher
file_scan_inclusions == {}
always_included_is_match(path) == path \in file_scan_inclusions

\* impl From<&Entry> for proto::Entry
proto_entry_from(entry) ==
    [id |-> entry.id,
     is_dir |-> kind_is_dir(entry.kind),
     path |-> to_string_lossy(entry.path),
     inode |-> entry.inode,
     mtime |-> entry.mtime,
     is_ignored |-> entry.is_ignored,
     is_external |-> entry.is_external]

\* impl TryFrom<(&CharBag, &PathMatcher, proto::Entry)> for Entry
entry_try_from(p) ==
    [id |-> p.id,
     kind |-> IF p.is_dir THEN "Dir" ELSE "File",
     path |-> p.path,
     inode |-> p.inode,
     mtime |-> p.mtime,
     is_ignored |-> p.is_ignored,
     is_always_included |-> always_included_is_match(p.path),
     is_external |-> p.is_external,
     is_private |-> FALSE]

\* ------------------------------------------------------------------------
\* Git statuses
\* ------------------------------------------------------------------------
\* FileStatus; for Unmerged the two fields hold first_head and second_head
Untracked == [tag |-> "Untracked", index_status |-> "Unmodified", worktree_status |-> "Unmodified"]
Tracked(index_status, worktree_status) ==
    [tag |-> "Tracked", index_status |-> index_status, worktree_status |-> worktree_status]

\* StatusEntry::to_proto
status_entry_to_proto(entry) ==
    [repo_path |-> to_string_lossy(entry.repo_path),
     simple_status |->
        IF entry.status.tag \in {"Ignored", "Untracked"} THEN "Added"
        ELSE IF entry.status.tag = "Unmerged" THEN "Conflict"
        ELSE IF entry.status.worktree_status # "Unmodified"
             THEN entry.status.worktree_status
             ELSE entry.status.index_status,
     status |-> Some(entry.status)]

\* status_from_proto: the variant is used when present, the simple status
\* is the fallback.
status_from_proto(simple_status, status) ==
    IF status # None THEN Unwrap(status)
    ELSE IF simple_status = "Conflict"
         THEN [tag |-> "Unmerged", index_status |-> "Updated", worktree_status |-> "Updated"]
         ELSE Tracked("Unmodified", simple_status)

\* impl TryFrom<proto::StatusEntry> for StatusEntry
status_entry_try_from(p) ==
    [repo_path |-> p.repo_path, status |-> status_from_proto(p.simple_status, p.status)]

\* ------------------------------------------------------------------------
\* Snapshot
\* ------------------------------------------------------------------------
\* Snapshot::new
SnapshotNew(id, root_name, abs_path) ==
    [id |-> id,
     abs_path |-> abs_path,
     root_name |-> root_name,
     entries_by_path |-> {},
     entries_by_id |-> {},
     repositories |-> {},
     scan_id |-> 1,
     completed_scan_id |-> 0]

\* Snapshot::entry_for_path
entry_for_path(s, path) == get_by_path(s.entries_by_path, path)

\* Snapshot::entry_for_id
entry_for_id(s, id) ==
    IF get_by_id(s.entries_by_id, id) = None THEN None
    ELSE entry_for_path(s, Unwrap(get_by_id(s.entries_by_id, id)).path)

\* Snapshot::update_abs_path
update_abs_path(s, abs_path, root_name) ==
    [s EXCEPT !.abs_path = abs_path, !.root_name = root_name]

\* the set of elements of a sequence
Range(seq) == {seq[i] : i \in 1..Len(seq)}

\* the repository part of apply_remote_update: one updated repository
RECURSIVE apply_updated_repositories(_, _)
apply_updated_repositories(s, repos) ==
    IF repos = <<>> THEN s
    ELSE
        LET repository == Head(repos)
            work_dir_entry == entry_for_id(s, repository.work_directory_id)
            work_dir_path == Unwrap(work_dir_entry).path
            existing == get_by_path(s.repositories, work_dir_path)
            keys == Range(repository.removed_statuses)
                        \cup {p.repo_path : p \in Range(repository.updated_statuses)}
            inserted == {status_entry_try_from(p) : p \in Range(repository.updated_statuses)}
            next ==
                IF work_dir_entry = None THEN s
                ELSE IF existing # None
                THEN [s EXCEPT !.repositories =
                        (@ \ existing) \cup
                        {[Unwrap(existing) EXCEPT
                            !.branch = repository.branch,
                            !.statuses_by_path =
                                {x \in @ : x.repo_path \notin keys} \cup inserted]}]
                ELSE [s EXCEPT !.repositories =
                        {x \in @ : x.path # work_dir_path} \cup
                        {[work_directory_id |-> repository.work_directory_id,
                          path |-> work_dir_path,
                          location_in_repo |-> None,
                          branch |-> repository.branch,
                          statuses_by_path |-> inserted]}]
        IN apply_updated_repositories(next, Tail(repos))

\* apply_remote_update, the edits of the identity index; this variant does
\* not remove the id that held the target path of an updated entry
apply_entries_by_id_edits_keeping_displaced(s, removed_ids, updated) ==
    {Remove(id) : id \in removed_ids}
    \cup {Insert(e.id, PathEntry(e.id, e.path, e.is_ignored, 0)) : e \in updated}

\* apply_remote_update, the edits of the identity index (worktree.rs:2406-2431)
apply_entries_by_id_edits(s, removed_ids, updated) ==
    {Remove(id) : id \in removed_ids}
    \cup {Remove(Unwrap(get_by_path(s.entries_by_path, e.path)).id) :
            e \in {u \in updated :
                    /\ get_by_path(s.entries_by_path, u.path) # None
                    /\ Unwrap(get_by_path(s.entries_by_path, u.path)).id # u.id}}
    \cup {Insert(e.id, PathEntry(e.id, e.path, e.is_ignored, 0)) : e \in updated}

\* apply_remote_update, the edits of the path tree (worktree.rs:2406-2431)
apply_entries_by_path_edits(s, removed_ids, updated) ==
    {Remove(Unwrap(entry_for_id(s, id)).path) :
            id \in {r \in removed_ids : entry_for_id(s, r) # None}}
    \cup {Remove(Unwrap(get_by_id(s.entries_by_id, e.id)).path) :
            e \in {u \in updated : get_by_id(s.entries_by_id, u.id) # None}}
    \cup {Insert(e.path, e) : e \in updated}

\* apply_remote_update, the completed scan id it leaves; this variant takes
\* every update for the last of its scan
completed_scan_id_after_any_update(s, update) == update.scan_id

\* apply_remote_update, the completed scan id it leaves (worktree.rs:2501-2503)
completed_scan_id_after(s, update) ==
    IF update.is_last_update THEN update.scan_id ELSE s.completed_scan_id

\* apply_remote_update, its last statements; this variant leaves scan_id
\* as it was
apply_scan_ids_keeping_scan_id(s, update) ==
    [s EXCEPT !.completed_scan_id = completed_scan_id_after(s, update)]

\* apply_remote_update, its last statements (worktree.rs:2500-2505)
apply_scan_ids(s, update) ==
    [s EXCEPT
        !.scan_id = update.scan_id,
        !.completed_scan_id = completed_scan_id_after(s, update)]

\* Snapshot::apply_remote_update
apply_remote_update(snapshot, update) ==
    LET s == update_abs_path(snapshot, update.abs_path, update.root_name)
        removed_ids == Range(update.removed_entries)
        updated == {entry_try_from(p) : p \in Range(update.updated_entries)}
        s1 == [s EXCEPT
                !.entries_by_path =
                    edit_by_path(@, apply_entries_by_path_edits(s, removed_ids, updated)),
                !.entries_by_id =
                    edit_by_id(@, apply_entries_by_id_edits(s, removed_ids, updated))]
        s2 == [s1 EXCEPT !.repositories =
                {r \in @ : r.work_directory_id \notin Range(update.removed_repositories)}]
        s3 == apply_updated_repositories(s2, update.updated_repositories)
    IN apply_scan_ids(s3, update)

\* ------------------------------------------------------------------------
\* The (path, id) pairs of the two indices (LocalSnapshot::check_invariants)
\* ------------------------------------------------------------------------
PathIdPairs(tree) == {<<x.path, x.id>> : x \in tree}

IndicesAgree(s) ==
    /\ PathIdPairs(s.entries_by_path) = PathIdPairs(s.entries_by_id)
    /\ Cardinality(s.entries_by_path) = Cardinality(PathIdPairs(s.entries_by_path))

\* ------------------------------------------------------------------------
\* Order of paths (impl Ord for Path compares component by component)
\* ------------------------------------------------------------------------
NameOrder == <<".git", ".gitignore", "A", "a", "a.txt", "b", "build", "d", "src", "x">>
NameRank(name) == CHOOSE i \in 1..Len(NameOrder) : NameOrder[i] = name

RECURSIVE PathLess(_, _)
PathLess(p, q) ==
    IF q = <<>> THEN FALSE
    ELSE IF p = <<>> THEN TRUE
    ELSE IF Head(p) = Head(q) THEN PathLess(Tail(p), Tail(q))
    ELSE NameRank(Head(p)) < NameRank(Head(q))

RECURSIVE SortedPaths(_)
\* a set of paths as an ascending sequence
SortedPaths(S) ==
    IF S = {} THEN <<>>
    ELSE LET m == CHOOSE x \in S : \A y \in S \ {x} : PathLess(x, y)
         IN <<m>> \o SortedPaths(S \ {m})

RECURSIVE SortedByPath(_)
\* a set of records with distinct paths as a sequence ascending by path
SortedByPath(S) ==
    IF S = {} THEN <<>>
    ELSE LET m == CHOOSE x \in S : \A y \in S \ {x} : PathLess(x.path, y.path)
         IN <<m>> \o SortedByPath(S \ {m})

RECURSIVE SortedByRepoPath(_)
SortedByRepoPath(S) ==
    IF S = {} THEN <<>>
    ELSE LET m == CHOOSE x \in S : \A y \in S \ {x} : PathLess(x.repo_path, y.repo_path)
         IN <<m>> \o SortedByRepoPath(S \ {m})

RECURSIVE SortedSeq(_)
\* a set of numbers as an ascending sequence
SortedSeq(S) ==
    IF S = {} THEN <<>>
    ELSE LET m == CHOOSE x \in S : \A y \in S : x <= y
         IN <<m>> \o SortedSeq(S \ {m})

RECURSIVE SortedById(_)
\* a set of records with distinct ids as a sequence ascending by id
SortedById(S) ==
    IF S = {} THEN <<>>
    ELSE LET m == CHOOSE x \in S : \A y \in S : x.id <= y.id
         IN <<m>> \o SortedById(S \ {m})

RECURSIVE SortedByWorkDirectoryId(_)
SortedByWorkDirectoryId(S) ==
    IF S = {} THEN <<>>
    ELSE LET m == CHOOSE x \in S : \A y \in S : x.work_directory_id <= y.work_directory_id
         IN <<m>> \o SortedByWorkDirectoryId(S \ {m})

\* Vec<Arc<Path>>::sort_unstable: ascending, duplicates kept
sort_unstable(paths) ==
    LET sorted == SortedPaths(Range(paths))
        count(p) == Cardinality({i \in DOMAIN paths : paths[i] = p})
        before(k) == IF k = 0 THEN 0
                     ELSE Cardinality({i \in DOMAIN paths :
                            \E j \in 1..k : paths[i] = sorted[j]})
    IN [i \in 1..Len(paths) |->
            sorted[CHOOSE k \in 1..Len(sorted) : before(k - 1) < i /\ i <= before(k)]]

\* ------------------------------------------------------------------------
\* The file system below the worktree root, and the git state of the
\* repository at the root (Fs, GitRepository)
\* ------------------------------------------------------------------------
WorktreeIdOfHost == 7
RootName == "root"
RootAbsPath == <<"home", "root">>

FsNames == {DOT_GIT, GITIGNORE, "A", "a", "b", "build", "d", "src"}
RootMetadata == [inode |-> 1, mtime |-> 0, is_dir |-> TRUE]

InitialFs ==
    [nodes |-> [name \in FsNames |->
                    IF name = DOT_GIT THEN Some([inode |-> 2, mtime |-> 0, is_dir |-> TRUE])
                    ELSE IF name = GITIGNORE THEN Some([inode |-> 3, mtime |-> 0, is_dir |-> FALSE])
                    ELSE IF name = "a" THEN Some([inode |-> 4, mtime |-> 0, is_dir |-> FALSE])
                    ELSE None],
     ignored |-> {},
     statuses |-> {[repo_path |-> <<"a">>, status |-> Tracked("Unmodified", "Modified")]},
     branch |-> "main",
     case_sensitive |-> TRUE]

\* the same tree with "b" a hard link to the file "a"
LinkedFs == [InitialFs EXCEPT !.nodes["b"] = InitialFs.nodes["a"]]

\* the same tree with "d" a symbolic link to the root: the metadata of a
\* link is the metadata of its target, so "d" has the inode of the root
RecursiveFs == [InitialFs EXCEPT !.nodes["d"] = Some(RootMetadata)]

\* the same tree on a file system that does not distinguish case
CaselessFs == [InitialFs EXCEPT !.case_sensitive = FALSE]

\* Fs::is_case_sensitive
fs_is_case_sensitive(f) == f.case_sensitive

\* str::to_lowercase on a file name
to_lowercase(name) == IF name = "A" THEN "a" ELSE name

\* the name under which the file system stores the file a name resolves to
\* (the file name of Fs::canonicalize); the name itself if nothing is there
canonical_file_name(f, name) ==
    LET stored == {n \in FsNames : f.nodes[n] # None /\ to_lowercase(n) = to_lowercase(name)}
    IN IF fs_is_case_sensitive(f) \/ stored = {} THEN name
       ELSE CHOOSE n \in stored : TRUE

\* an empty root
EmptyFs == [InitialFs EXCEPT !.nodes = [name \in FsNames |-> None], !.statuses = {}]

\* the directory "d", when it exists, is the work directory of a repository
\* of its own: it holds a .git directory and nothing else
NestedDotGit == <<"d", DOT_GIT>>
NestedDotGitMetadata == [inode |-> 6, mtime |-> 0, is_dir |-> TRUE]

\* the directory "src", when it exists, holds the file "a.txt" and nothing
\* else
SrcFile == <<"src", "a.txt">>
SrcFileMetadata == [inode |-> 8, mtime |-> 0, is_dir |-> FALSE]

\* the directory "build", when it exists, holds the file "x" and nothing
\* else
BuildFile == <<"build", "x">>
BuildFileMetadata == [inode |-> 11, mtime |-> 0, is_dir |-> FALSE]

\* Fs::metadata
fs_metadata(f, path) ==
    IF path = EMPTY_PATH THEN Some(RootMetadata)
    ELSE IF Len(path) = 1 /\ path[1] \in FsNames
    THEN f.nodes[canonical_file_name(f, path[1])]
    ELSE IF Len(path) = 2 /\ path[1] = "d" /\ f.nodes["d"] = Some(RootMetadata)
    THEN (IF path[2] \in FsNames THEN f.nodes[path[2]] ELSE None)
    ELSE IF path = NestedDotGit /\ f.nodes["d"] # None THEN Some(NestedDotGitMetadata)
    ELSE IF path = SrcFile /\ f.nodes["src"] # None THEN Some(SrcFileMetadata)
    ELSE IF path = BuildFile /\ f.nodes["build"] # None THEN Some(BuildFileMetadata)
    ELSE None

\* Fs::read_dir: the names of the children
fs_read_dir(f, path) ==
    IF path = EMPTY_PATH THEN {name \in FsNames : f.nodes[name] # None}
    ELSE IF path = <<"d">> /\ f.nodes["d"] = Some(RootMetadata)
    THEN {name \in FsNames : f.nodes[name] # None}
    ELSE IF path = <<"d">> /\ f.nodes["d"] # None THEN {DOT_GIT}
    ELSE IF path = <<"src">> /\ f.nodes["src"] # None THEN {"a.txt"}
    ELSE IF path = <<"build">> /\ f.nodes["build"] # None THEN {"x"}
    ELSE {}

\* build_gitignore: the names the .gitignore file of the directory ignores
build_gitignore(f, dir) ==
    IF dir = EMPTY_PATH /\ f.nodes[GITIGNORE] # None THEN Some(f.ignored) ELSE None

\* Fs::open_repo on the .git directory of the root
fs_open_repo(f, dot_git_path) ==
    \/ dot_git_path = <<DOT_GIT>> /\ f.nodes[DOT_GIT] # None
    \/ dot_git_path = NestedDotGit /\ f.nodes["d"] # None

\* GitRepository::status of the repository with the given work directory,
\* restricted to the given path prefixes; the repository in "d" has nothing
\* to report
repo_status(f, work_directory, prefixes) ==
    IF work_directory = EMPTY_PATH
    THEN {x \in f.statuses : \E p \in prefixes : starts_with(x.repo_path, p)}
    ELSE {}

\* WorktreeSettings: no exclusions, no private files
is_path_excluded(path) == FALSE
is_path_private(path) == FALSE
is_path_always_included(path) == always_included_is_match(path)

\* ------------------------------------------------------------------------
\* IgnoreStack: whether everything is ignored, and the ignored names
\* ------------------------------------------------------------------------
IgnoreStackNone == [all |-> FALSE, names |-> {}]
IgnoreStackAll == [all |-> TRUE, names |-> {}]

\* IgnoreStack::append
ignore_stack_append(stack, ignore) ==
    IF stack.all THEN stack ELSE [stack EXCEPT !.names = @ \cup ignore]

\* IgnoreStack::is_abs_path_ignored
is_abs_path_ignored(stack, path, is_dir) ==
    \/ is_dir /\ file_name(path) = DOT_GIT
    \/ stack.all
    \/ file_name(path) \in stack.names

\* ------------------------------------------------------------------------
\* LocalSnapshot
\* ------------------------------------------------------------------------
LocalSnapshotNew(id, root_name, abs_path) ==
    [id |-> id,
     abs_path |-> abs_path,
     root_name |-> root_name,
     entries_by_path |-> {},
     entries_by_id |-> {},
     repositories |-> {},
     scan_id |-> 1,
     completed_scan_id |-> 0,
     git_repositories |-> {},
     ignores_by_parent_abs_path |-> {}]

\* LocalSnapshot.snapshot
SnapshotOf(ls) ==
    [id |-> ls.id,
     abs_path |-> ls.abs_path,
     root_name |-> ls.root_name,
     entries_by_path |-> ls.entries_by_path,
     entries_by_id |-> ls.entries_by_id,
     repositories |-> ls.repositories,
     scan_id |-> ls.scan_id,
     completed_scan_id |-> ls.completed_scan_id]

\* Entry::new; the id is the value ProjectEntryId::new takes from the counter
EntryNew(path, metadata, id) ==
    [id |-> id,
     kind |-> IF metadata.is_dir THEN "PendingDir" ELSE "File",
     path |-> path,
     inode |-> metadata.inode,
     mtime |-> metadata.mtime,
     is_ignored |-> FALSE,
     is_always_included |-> FALSE,
     is_external |-> FALSE,
     is_private |-> FALSE]

\* the gitignore registered for a directory
ignore_of(ls, dir) ==
    IF \E x \in ls.ignores_by_parent_abs_path : x.parent_abs_path = dir
    THEN Some(CHOOSE x \in ls.ignores_by_parent_abs_path : x.parent_abs_path = dir)
    ELSE None

\* HashMap::insert on ignores_by_parent_abs_path
insert_ignore(ignores, dir, ignore, needs_update) ==
    {x \in ignores : x.parent_abs_path # dir}
        \cup {[parent_abs_path |-> dir, ignore |-> ignore, needs_update |-> needs_update]}

RECURSIVE ignore_stack_along(_, _, _, _)
\* the loop of ignore_stack_for_abs_path over the ancestors, from the root
ignore_stack_along(ls, path, k, stack) ==
    IF k >= Len(path) THEN stack
    ELSE LET ancestor == SubSeq(path, 1, k)
         IN IF is_abs_path_ignored(stack, ancestor, TRUE) THEN IgnoreStackAll
            ELSE ignore_stack_along(ls, path, k + 1,
                    IF ignore_of(ls, ancestor) # None
                    THEN ignore_stack_append(stack, Unwrap(ignore_of(ls, ancestor)).ignore)
                    ELSE stack)

\* LocalSnapshot::ignore_stack_for_abs_path
ignore_stack_for_abs_path(ls, path, is_dir) ==
    LET stack == ignore_stack_along(ls, path, 0, IgnoreStackNone)
    IN IF is_abs_path_ignored(stack, path, is_dir) THEN IgnoreStackAll ELSE stack

\* LocalSnapshot::ancestor_inodes_for_path
ancestor_inodes_for_path(ls, path) ==
    {Unwrap(entry_for_path(ls, SubSeq(path, 1, k))).inode :
        k \in {j \in 0..(Len(path) - 1) : entry_for_path(ls, SubSeq(path, 1, j)) # None}}

\* Snapshot::child_entries
child_entries(s, parent_path) ==
    {x \in s.entries_by_path : parent(x.path) = Some(parent_path)}

\* Snapshot::repository
repository(s, work_directory) ==
    IF \E r \in s.repositories : r.path = work_directory
    THEN Some(CHOOSE r \in s.repositories : r.path = work_directory)
    ELSE None

\* Snapshot::repository_for_path: the deepest repository containing the path
repository_for_path(s, path) ==
    LET containing == {r \in s.repositories : starts_with(path, r.path)}
    IN IF containing = {} THEN None
       ELSE Some(CHOOSE r \in containing : \A o \in containing : Len(o.path) <= Len(r.path))

\* LocalSnapshot::local_repo_for_path
local_repo_for_path(ls, path) ==
    IF repository_for_path(ls, path) = None THEN None
    ELSE LET id == Unwrap(repository_for_path(ls, path)).work_directory_id
         IN IF \E g \in ls.git_repositories : g.work_directory_id = id
            THEN Some(CHOOSE g \in ls.git_repositories : g.work_directory_id = id)
            ELSE None

\* LocalSnapshot::insert_entry
local_insert_entry(ls, new_entry, f) ==
    LET ignore == build_gitignore(f, Unwrap(parent(new_entry.path)))
        with_ignore ==
            IF new_entry.kind = "File" /\ file_name(new_entry.path) = GITIGNORE /\ ignore # None
            THEN [ls EXCEPT !.ignores_by_parent_abs_path =
                    insert_ignore(@, Unwrap(parent(new_entry.path)), Unwrap(ignore), TRUE)]
            ELSE ls
        existing == get_by_path(ls.entries_by_path, new_entry.path)
        entry == IF new_entry.kind = "PendingDir" /\ existing # None
                 THEN [new_entry EXCEPT !.kind = Unwrap(existing).kind]
                 ELSE new_entry
    IN [with_ignore EXCEPT
            !.entries_by_path = {x \in @ : x.path # entry.path} \cup {entry},
            !.entries_by_id =
                {x \in @ : x.id # entry.id
                           /\ ~(existing # None /\ Unwrap(existing).id # entry.id
                                /\ x.id = Unwrap(existing).id)}
                    \cup {PathEntry(entry.id, entry.path, entry.is_ignored, ls.scan_id)}]

\* ------------------------------------------------------------------------
\* BackgroundScannerState
\* ------------------------------------------------------------------------
\* the state a scanner is started with (start_background_scanner)
BackgroundScannerStateNew(snapshot) ==
    [snapshot |-> snapshot,
     prev_snapshot |-> SnapshotOf(snapshot),
     changed_paths |-> {},
     removed_entries |-> {},
     scanned_dirs |-> {},
     paths_to_scan |-> {},
     path_prefixes_to_scan |-> {}]

\* the file name of local_settings_folder_relative_path()
LocalSettingsFolder == ".zed"

\* BackgroundScannerState::should_scan_directory; this variant lets every
\* directory be scanned
should_scan_directory_always(st, entry) == TRUE

\* BackgroundScannerState::should_scan_directory
should_scan_directory(st, entry) ==
    \/ (~entry.is_external /\ (~entry.is_ignored \/ entry.is_always_included))
    \/ file_name(entry.path) = DOT_GIT
    \/ file_name(entry.path) = LocalSettingsFolder
    \/ entry.id \in st.scanned_dirs
    \/ \E p \in st.paths_to_scan : starts_with(p, entry.path)
    \/ \E p \in st.path_prefixes_to_scan : starts_with(entry.path, p)

\* BackgroundScannerState::enqueue_scan_dir: the jobs it sends (none or one)
enqueue_scan_dir(st, entry) ==
    LET ancestor_inodes == ancestor_inodes_for_path(st.snapshot, entry.path)
    IN IF entry.inode \in ancestor_inodes THEN <<>>
       ELSE <<[path |-> entry.path,
               ignore_stack |-> ignore_stack_for_abs_path(st.snapshot, entry.path, TRUE),
               ancestor_inodes |-> ancestor_inodes \cup {entry.inode},
               is_external |-> entry.is_external]>>

\* BackgroundScannerState::reuse_entry_id; this variant falls back to the
\* entry at the path when the removed entry is not reused
reuse_entry_id_falling_back(st, entry) ==
    LET removed == {r \in st.removed_entries : r.inode = entry.inode}
        removed_entry == CHOOSE r \in removed : TRUE
        existing_entry == entry_for_path(st.snapshot, entry.path)
    IN IF removed # {} /\ (removed_entry.mtime = entry.mtime \/ removed_entry.path = entry.path)
       THEN [st |-> [st EXCEPT !.removed_entries = @ \ removed],
             entry |-> [entry EXCEPT !.id = removed_entry.id]]
       ELSE [st |-> [st EXCEPT !.removed_entries = @ \ removed],
             entry |-> IF existing_entry # None
                       THEN [entry EXCEPT !.id = Unwrap(existing_entry).id]
                       ELSE entry]

\* BackgroundScannerState::reuse_entry_id
reuse_entry_id(st, entry) ==
    LET removed == {r \in st.removed_entries : r.inode = entry.inode}
        removed_entry == CHOOSE r \in removed : TRUE
        existing_entry == entry_for_path(st.snapshot, entry.path)
    IN IF removed # {}
       THEN [st |-> [st EXCEPT !.removed_entries = @ \ removed],
             entry |-> IF removed_entry.mtime = entry.mtime \/ removed_entry.path = entry.path
                       THEN [entry EXCEPT !.id = removed_entry.id]
                       ELSE entry]
       ELSE [st |-> st,
             entry |-> IF existing_entry # None
                       THEN [entry EXCEPT !.id = Unwrap(existing_entry).id]
                       ELSE entry]

\* BackgroundScannerState::insert_git_repository_for_path
insert_git_repository_for_path(st, work_dir_path, dot_git_path, location_in_repo, f) ==
    LET work_dir == entry_for_path(st.snapshot, work_dir_path)
        work_dir_id == Unwrap(work_dir).id
    IN IF \/ work_dir = None
          \/ \E g \in st.snapshot.git_repositories : g.work_directory_id = work_dir_id
          \/ ~fs_open_repo(f, dot_git_path)
       THEN [st |-> st, repo |-> None]
       ELSE [st |-> [st EXCEPT
                !.snapshot.repositories =
                    {r \in @ : r.path # work_dir_path}
                        \cup {[work_directory_id |-> work_dir_id,
                               path |-> work_dir_path,
                               location_in_repo |-> location_in_repo,
                               branch |-> f.branch,
                               statuses_by_path |-> {}]},
                !.snapshot.git_repositories =
                    @ \cup {[work_directory_id |-> work_dir_id,
                             path |-> work_dir_path,
                             git_dir_scan_id |-> 0,
                             status_scan_id |-> 0]}],
             repo |-> Some([work_directory_id |-> work_dir_id, path |-> work_dir_path])]

\* BackgroundScannerState::insert_git_repository
insert_git_repository(st, dot_git_path, f) ==
    IF parent(dot_git_path) = None THEN [st |-> st, repo |-> None]
    ELSE IF DOT_GIT \in Range(Unwrap(parent(dot_git_path))) THEN [st |-> st, repo |-> None]
    ELSE insert_git_repository_for_path(st, Unwrap(parent(dot_git_path)), dot_git_path, None, f)

\* BackgroundScannerState::insert_entry
scanner_insert_entry(st, entry, f) ==
    LET reused == reuse_entry_id(st, entry)
        inserted == [reused.st EXCEPT !.snapshot = local_insert_entry(@, reused.entry, f)]
    IN IF file_name(entry.path) = DOT_GIT
       THEN insert_git_repository(inserted, entry.path, f).st
       ELSE inserted

\* BackgroundScannerState::remove_path
remove_path(st, path) ==
    LET removed == {x \in st.snapshot.entries_by_path : starts_with(x.path, path)}
        removed_ids == {x.id : x \in removed}
        inodes == {x.inode : x \in removed}
        previous(i) == {x \in st.removed_entries : x.inode = i}
        greatest(i) ==
            LET S == {x \in removed : x.inode = i}
                top == {x \in S : \A y \in S : y.id <= x.id}
                first == CHOOSE x \in top : \A y \in top \ {x} : PathLess(x.path, y.path)
            IN IF previous(i) # {} /\ first.id <= (CHOOSE p \in previous(i) : TRUE).id
               THEN CHOOSE p \in previous(i) : TRUE
               ELSE first
        gitignore_dirs == {Unwrap(parent(x.path)) : x \in {y \in removed : file_name(y.path) = GITIGNORE}}
    IN [st EXCEPT
            !.snapshot.entries_by_path = @ \ removed,
            !.removed_entries = {x \in @ : x.inode \notin inodes} \cup {greatest(i) : i \in inodes},
            !.snapshot.ignores_by_parent_abs_path =
                {IF x.parent_abs_path \in gitignore_dirs THEN [x EXCEPT !.needs_update = TRUE] ELSE x :
                    x \in @},
            !.snapshot.entries_by_id = edit_by_id(@, {Remove(id) : id \in removed_ids}),
            !.snapshot.git_repositories = {g \in @ : g.work_directory_id \notin removed_ids},
            !.snapshot.repositories = {r \in @ : ~starts_with(r.path, path)}]

\* BackgroundScannerState::populate_dir
populate_dir(st, parent_path, entries, ignore) ==
    LET existing == get_by_path(st.snapshot.entries_by_path, parent_path)
        parent_entry == [Unwrap(existing) EXCEPT !.kind = "Dir"]
        with_ignore ==
            IF ignore # None
            THEN [st EXCEPT !.snapshot.ignores_by_parent_abs_path =
                    insert_ignore(@, parent_path, Unwrap(ignore), FALSE)]
            ELSE st
        entries_by_path_edits ==
            {Insert(parent_path, parent_entry)} \cup {Insert(e.path, e) : e \in entries}
        entries_by_id_edits ==
            {Insert(e.id, PathEntry(e.id, e.path, e.is_ignored, st.snapshot.scan_id)) : e \in entries}
    IN IF existing = None THEN st
       ELSE IF ~kind_is_dir(Unwrap(existing).kind) THEN st
       ELSE [with_ignore EXCEPT
                !.scanned_dirs = @ \cup {parent_entry.id},
                !.snapshot.entries_by_path = edit_by_path(@, entries_by_path_edits),
                !.snapshot.entries_by_id = edit_by_id(@, entries_by_id_edits),
                !.changed_paths = @ \cup {parent_path}]

\* BackgroundScanner::remove_repo_path
remove_repo_path(path, ls) ==
    IF DOT_GIT \notin Range(path) /\ repository(ls, path) # None
    THEN [ls EXCEPT
            !.git_repositories =
                {g \in @ : g.work_directory_id # Unwrap(repository(ls, path)).work_directory_id},
            !.repositories = {r \in @ : r.path # path}]
    ELSE ls

\* ------------------------------------------------------------------------
\* BackgroundScanner: the work done inside its critical sections
\* ------------------------------------------------------------------------
\* read_dir order, with .git and .gitignore swapped to the front
child_order(names) == SelectSeq(NameOrder, LAMBDA name : name \in names)

RECURSIVE scan_dir_children(_, _, _, _, _)
\* scan_dir, the loop over the children (worktree.rs:4526-4656): stat each
\* child and build its entry and, for a directory, its scan job
scan_dir_children(names, job, ignore_stack, next_id, f) ==
    IF names = <<>> THEN [next_id |-> next_id, children |-> <<>>]
    ELSE
        LET child_path == join(job.path, Head(names))
            metadata == fs_metadata(f, child_path)
            md == Unwrap(metadata)
            is_ignored == is_abs_path_ignored(ignore_stack, child_path, md.is_dir)
            child_entry ==
                [EntryNew(child_path, md, next_id) EXCEPT
                    !.is_external = job.is_external,
                    !.is_ignored = is_ignored,
                    !.is_always_included = is_path_always_included(child_path),
                    !.is_private = is_path_private(child_path)]
            new_job ==
                IF md.is_dir /\ md.inode \notin job.ancestor_inodes
                THEN Some([path |-> child_path,
                           ignore_stack |-> IF is_ignored THEN IgnoreStackAll ELSE ignore_stack,
                           ancestor_inodes |-> job.ancestor_inodes \cup {md.inode},
                           is_external |-> job.is_external])
                ELSE None
            rest == scan_dir_children(Tail(names), job, ignore_stack, next_id + 1, f)
        IN IF metadata = None
           THEN scan_dir_children(Tail(names), job, ignore_stack, next_id, f)
           ELSE [next_id |-> rest.next_id,
                 children |-> <<[entry |-> child_entry, job |-> new_job]>> \o rest.children]

RECURSIVE scan_dir_reuse(_, _)
\* scan_dir under the lock (worktree.rs:4658-4679): reuse entry ids and
\* defer the directories that should not be scanned
scan_dir_reuse(st, children) ==
    IF children = <<>> THEN [st |-> st, entries |-> {}, jobs |-> <<>>]
    ELSE
        LET reused == reuse_entry_id(st, Head(children).entry)
            is_dir == kind_is_dir(reused.entry.kind)
            scan == should_scan_directory(reused.st, reused.entry)
            entry == IF is_dir /\ ~scan
                     THEN [reused.entry EXCEPT !.kind = "UnloadedDir"]
                     ELSE reused.entry
            jobs == IF is_dir /\ scan /\ Head(children).job # None
                    THEN <<Unwrap(Head(children).job)>>
                    ELSE <<>>
            rest == scan_dir_reuse(reused.st, Tail(children))
        IN [st |-> rest.st, entries |-> {entry} \cup rest.entries, jobs |-> jobs \o rest.jobs]

\* BackgroundScanner::scan_dir after the .git child has been handled: the
\* children are read, then added under the lock in one batch
scan_dir_populate(st, next_id, job, names, f) ==
    LET new_ignore == IF GITIGNORE \in names THEN build_gitignore(f, job.path) ELSE None
        ignore_stack == IF new_ignore # None
                        THEN ignore_stack_append(job.ignore_stack, Unwrap(new_ignore))
                        ELSE job.ignore_stack
        built == scan_dir_children(child_order(names), job, ignore_stack, next_id, f)
        reused == scan_dir_reuse(st, built.children)
    IN [st |-> populate_dir(reused.st, job.path, reused.entries, new_ignore),
        next_id |-> built.next_id,
        jobs |-> reused.jobs]

\* reload_entries_for_paths (worktree.rs:4703-4731): the metadata of a
\* requested path; on a file system that is not case sensitive a path whose
\* file name is not the stored one counts as missing
reload_metadata(f, path) ==
    LET metadata == fs_metadata(f, path)
    IN IF /\ metadata # None
          /\ ~fs_is_case_sensitive(f)
          /\ path # EMPTY_PATH
          /\ canonical_file_name(f, file_name(path)) # file_name(path)
       THEN None
       ELSE metadata

RECURSIVE reload_remove_paths(_, _, _, _)
\* reload_entries_for_paths (worktree.rs:4740-4745)
reload_remove_paths(st, paths, f, doing_recursive_update) ==
    IF paths = <<>> THEN st
    ELSE reload_remove_paths(
            IF reload_metadata(f, Head(paths)) = None \/ doing_recursive_update
            THEN remove_path(st, Head(paths))
            ELSE st,
            Tail(paths), f, doing_recursive_update)

\* reload_entries_for_paths (worktree.rs:4747-4819), for one repository: the
\* statuses of the requested paths are read again and the differences edited
\* into the repository entry
reload_repository_statuses(st, paths, f, repo) ==
    LET mine == {p \in Range(paths) :
                    /\ repository_for_path(st.snapshot, p) = Some(repo)
                    /\ local_repo_for_path(st.snapshot, p) # None}
        repo_paths == {SubSeq(p, Len(repo.path) + 1, Len(p)) : p \in mine}
        status == repo_status(f, repo.path, repo_paths)
        inserts == {x \in status : x \notin repo.statuses_by_path}
        removes == {p \in repo_paths :
                        /\ \A x \in status : x.repo_path # p
                        /\ \E y \in repo.statuses_by_path : y.repo_path = p}
        keys == removes \cup {x.repo_path : x \in inserts}
    IN IF mine = {} \/ keys = {} \/ repository(st.snapshot, repo.path) = None THEN st
       ELSE [st EXCEPT
                !.snapshot.repositories =
                    {IF r.path = repo.path
                     THEN [r EXCEPT !.statuses_by_path =
                            {y \in @ : y.repo_path \notin keys} \cup inserts]
                     ELSE r : r \in @},
                !.snapshot.git_repositories =
                    {IF g.work_directory_id = Unwrap(repository(st.snapshot, repo.path)).work_directory_id
                     THEN [g EXCEPT !.status_scan_id = st.snapshot.scan_id]
                     ELSE g : g \in @}]

RECURSIVE reload_statuses(_, _, _, _)
reload_statuses(st, paths, f, repos) ==
    IF repos = <<>> THEN st
    ELSE reload_statuses(reload_repository_statuses(st, paths, f, Head(repos)),
                         paths, f, Tail(repos))

RECURSIVE reload_insert_entries(_, _, _, _)
\* reload_entries_for_paths (worktree.rs:4821-4867)
reload_insert_entries(ctx, paths, f, doing_recursive_update) ==
    IF paths = <<>> THEN ctx
    ELSE
        LET path == Head(paths)
            metadata == reload_metadata(f, path)
            md == Unwrap(metadata)
            st == ctx.st
            ignore_stack == ignore_stack_for_abs_path(st.snapshot, path, md.is_dir)
            fs_entry ==
                [EntryNew(path, md, ctx.next_id) EXCEPT
                    !.is_ignored = is_abs_path_ignored(ignore_stack, path, md.is_dir),
                    !.is_private = is_path_private(path),
                    !.is_always_included = is_path_always_included(path)]
            recurse == doing_recursive_update /\ md.is_dir
            scan == should_scan_directory(st, fs_entry)
            entry == IF recurse /\ ~scan THEN [fs_entry EXCEPT !.kind = "UnloadedDir"] ELSE fs_entry
            jobs == IF recurse /\ scan THEN enqueue_scan_dir(st, fs_entry) ELSE <<>>
            next ==
                IF metadata = None
                THEN [ctx EXCEPT !.st.snapshot = remove_repo_path(path, @)]
                ELSE [st |-> scanner_insert_entry(st, entry, f),
                      next_id |-> ctx.next_id + 1,
                      jobs |-> ctx.jobs \o jobs]
        IN reload_insert_entries(next, Tail(paths), f, doing_recursive_update)

\* BackgroundScanner::reload_entries_for_paths, the critical section with
\* the metadata read for it
reload_entries_for_paths(st, next_id, relative_paths, f, doing_recursive_update) ==
    LET removed == reload_remove_paths(st, relative_paths, f, doing_recursive_update)
        statuses == reload_statuses(removed, relative_paths, f,
                                    SortedByPath(removed.snapshot.repositories))
        inserted == reload_insert_entries([st |-> statuses, next_id |-> next_id, jobs |-> <<>>],
                                          relative_paths, f, doing_recursive_update)
    IN [inserted EXCEPT !.st.changed_paths = @ \cup Range(relative_paths)]

\* update_ignore_statuses, its critical section (worktree.rs:4903-4947):
\* the gitignores to refresh, the jobs for them and the snapshot the jobs
\* will read
update_ignore_statuses_begin(st) ==
    LET ls == st.snapshot
        ignores_to_update ==
            {x.parent_abs_path : x \in {y \in ls.ignores_by_parent_abs_path :
                y.needs_update /\ entry_for_path(ls, y.parent_abs_path) # None}}
        retained ==
            {[x EXCEPT !.needs_update = FALSE] :
                x \in {y \in ls.ignores_by_parent_abs_path :
                    entry_for_path(ls, join(y.parent_abs_path, GITIGNORE)) # None}}
        snapshot == [ls EXCEPT !.ignores_by_parent_abs_path = retained]
        outermost == {p \in ignores_to_update :
                        \A q \in ignores_to_update : q = p \/ ~starts_with(p, q)}
        jobs == [i \in 1..Cardinality(outermost) |->
                    [abs_path |-> SortedPaths(outermost)[i],
                     ignore_stack |->
                        ignore_stack_for_abs_path(snapshot, SortedPaths(outermost)[i], TRUE)]]
    IN [st |-> [st EXCEPT !.snapshot = snapshot], jobs |-> jobs, prev_snapshot |-> snapshot]

\* BackgroundScanner::update_ignore_status
update_ignore_status(st, job, snapshot) ==
    LET ignore_stack ==
            IF ignore_of(snapshot, job.abs_path) # None
            THEN ignore_stack_append(job.ignore_stack, Unwrap(ignore_of(snapshot, job.abs_path)).ignore)
            ELSE job.ignore_stack
        children == child_entries(snapshot, job.abs_path)
        updated(e) == [e EXCEPT !.is_ignored =
                            is_abs_path_ignored(ignore_stack, e.path, kind_is_dir(e.kind))]
        dirs == SortedByPath({e \in children : kind_is_dir(e.kind)})
        ignore_jobs ==
            [i \in 1..Len(dirs) |->
                [abs_path |-> dirs[i].path,
                 ignore_stack |-> IF updated(dirs[i]).is_ignored
                                  THEN IgnoreStackAll ELSE ignore_stack]]
        to_scan == {e \in children :
                        /\ kind_is_dir(e.kind) /\ e.is_ignored /\ ~updated(e).is_ignored
                        /\ e.kind = "UnloadedDir"
                        /\ should_scan_directory(st, updated(e))}
        scan_jobs_of(e) == enqueue_scan_dir(st, updated(e))
        new_scan_jobs ==
            LET sorted == SortedByPath(to_scan)
                with_job == SelectSeq(sorted, LAMBDA e : scan_jobs_of(e) # <<>>)
            IN [i \in 1..Len(with_job) |-> scan_jobs_of(with_job[i])[1]]
        flipped == {e \in children :
                        /\ updated(e).is_ignored # e.is_ignored
                        /\ get_by_id(snapshot.entries_by_id, e.id) # None}
        entries_by_id_edits ==
            {Insert(e.id, [Unwrap(get_by_id(snapshot.entries_by_id, e.id)) EXCEPT
                                !.scan_id = snapshot.scan_id,
                                !.is_ignored = updated(e).is_ignored]) : e \in flipped}
        entries_by_path_edits == {Insert(e.path, updated(e)) : e \in flipped}
    IN [st |-> [st EXCEPT
                    !.changed_paths = @ \cup {e.path : e \in flipped},
                    !.snapshot.entries_by_path = edit_by_path(@, entries_by_path_edits),
                    !.snapshot.entries_by_id = edit_by_id(@, entries_by_id_edits)],
        ignore_jobs |-> ignore_jobs,
        scan_jobs |-> new_scan_jobs]

RECURSIVE update_git_repositories_reload(_, _, _)
\* update_git_repositories, the loop over the changed .git directories
\* (worktree.rs:5056-5113): returns the state and the status jobs
update_git_repositories_reload(ctx, dot_git_paths, f) ==
    IF dot_git_paths = <<>> THEN ctx
    ELSE
        LET dot_git_dir == Head(dot_git_paths)
            st == ctx.st
            scan_id == st.snapshot.scan_id
            existing == {g \in st.snapshot.git_repositories : join(g.path, DOT_GIT) = dot_git_dir}
            local_repository == CHOOSE g \in existing : TRUE
            work_dir == entry_for_id(st.snapshot, local_repository.work_directory_id)
            inserted == insert_git_repository(st, dot_git_dir, f)
            next ==
                IF existing = {}
                THEN IF inserted.repo = None THEN ctx
                     ELSE [st |-> inserted.st,
                           repo_updates |-> Append(ctx.repo_updates, Unwrap(inserted.repo))]
                ELSE IF local_repository.git_dir_scan_id = scan_id \/ work_dir = None THEN ctx
                ELSE [st |-> [st EXCEPT
                                !.snapshot.git_repositories =
                                    {IF g.work_directory_id = local_repository.work_directory_id
                                     THEN [g EXCEPT !.git_dir_scan_id = scan_id,
                                                    !.status_scan_id = scan_id]
                                     ELSE g : g \in @},
                                !.snapshot.repositories =
                                    {IF r.path = Unwrap(work_dir).path
                                     THEN [r EXCEPT !.branch = f.branch]
                                     ELSE r : r \in @}],
                      repo_updates |->
                        Append(ctx.repo_updates,
                               [work_directory_id |-> local_repository.work_directory_id,
                                path |-> local_repository.path])]
        IN update_git_repositories_reload(next, Tail(dot_git_paths), f)

\* BackgroundScanner::update_git_repositories, its critical section; this
\* variant preserves every repository
update_git_repositories_begin_preserving(st, dot_git_paths, f) ==
    LET reloaded == update_git_repositories_reload([st |-> st, repo_updates |-> <<>>],
                                                   dot_git_paths, f)
    IN [st |-> reloaded.st, repo_updates |-> reloaded.repo_updates]

\* BackgroundScanner::update_git_repositories, its critical section
\* (worktree.rs:5053-5141)
update_git_repositories_begin(st, dot_git_paths, f) ==
    LET reloaded == update_git_repositories_reload([st |-> st, repo_updates |-> <<>>],
                                                   dot_git_paths, f)
        ls == reloaded.st.snapshot
        ids_to_preserve ==
            {g.work_directory_id : g \in {h \in ls.git_repositories :
                \/ /\ entry_for_id(ls, h.work_directory_id) # None
                   /\ entry_for_path(ls, join(Unwrap(entry_for_id(ls, h.work_directory_id)).path,
                                              DOT_GIT)) # None
                \/ fs_metadata(f, join(h.path, DOT_GIT)) # None}}
    IN [st |-> [reloaded.st EXCEPT
                    !.snapshot.git_repositories =
                        {g \in @ : g.work_directory_id \in ids_to_preserve},
                    !.snapshot.repositories =
                        {r \in @ : r.work_directory_id \in ids_to_preserve}],
        repo_updates |-> reloaded.repo_updates]

\* update_git_statuses up to the clone of the snapshot (worktree.rs:5180-5223):
\* the repository entry of the clone with the statuses git reports now;
\* None when the clone has no such repository
update_git_statuses_read(st, job, f) ==
    IF repository(st.snapshot, job.path) = None THEN None
    ELSE Some([Unwrap(repository(st.snapshot, job.path)) EXCEPT
                    !.statuses_by_path = repo_status(f, job.path, {EMPTY_PATH})])

\* update_git_statuses, the second critical section (worktree.rs:5224-5235)
update_git_statuses_write(st, repo) ==
    [st EXCEPT
        !.snapshot.repositories = {r \in @ : r.path # repo.path} \cup {repo},
        !.changed_paths = @ \cup {repo.path \o x.repo_path : x \in repo.statuses_by_path}]

\* ------------------------------------------------------------------------
\* BackgroundScanner::build_change_set
\* ------------------------------------------------------------------------
Change(path, id, change) == [path |-> path, id |-> id, change |-> change]

\* Cursor::seek_forward(path, Bias::Left): the first position at or after
\* ix whose entry is not before the path
seek_forward(entries, ix, path) ==
    IF \E k \in ix..Len(entries) : ~PathLess(entries[k].path, path)
    THEN CHOOSE k \in ix..Len(entries) :
            /\ ~PathLess(entries[k].path, path)
            /\ \A j \in ix..(k - 1) : PathLess(entries[j].path, path)
    ELSE Len(entries) + 1

\* is_newly_loaded in build_change_set; this variant forgets the directory
\* last reported as loaded
is_newly_loaded_in_scan(scanner_phase, last_newly_loaded_dir_path, path) ==
    scanner_phase = "InitialScan"

\* is_newly_loaded in build_change_set: the initial scan, or a path below
\* the directory last reported as loaded
is_newly_loaded(scanner_phase, last_newly_loaded_dir_path, path) ==
    \/ scanner_phase = "InitialScan"
    \/ /\ last_newly_loaded_dir_path # None
       /\ starts_with(path, Unwrap(last_newly_loaded_dir_path))

\* the changes pushed for a path of both snapshots in phase
\* EventsReceivedDuringInitialScan; this variant pushes AddedOrUpdated only
\* when the ids differ
changes_during_initial_scan_for_new_id(old_entry, new_entry) ==
    IF old_entry.id # new_entry.id
    THEN <<Change(old_entry.path, old_entry.id, "Removed"),
           Change(new_entry.path, new_entry.id, "AddedOrUpdated")>>
    ELSE <<>>

\* the changes pushed for a path of both snapshots in phase
\* EventsReceivedDuringInitialScan: Removed when the ids differ, then
\* AddedOrUpdated in every case
changes_during_initial_scan(old_entry, new_entry) ==
    (IF old_entry.id # new_entry.id
     THEN <<Change(old_entry.path, old_entry.id, "Removed")>> ELSE <<>>)
        \o <<Change(new_entry.path, new_entry.id, "AddedOrUpdated")>>

RECURSIVE change_set_for_path(_, _, _, _, _)
\* the inner loop of build_change_set for one changed path
\* c = [oi, ni, last_newly_loaded_dir_path, changes]
change_set_for_path(old, new, path, scanner_phase, c) ==
    LET has_old == c.oi <= Len(old)
        has_new == c.ni <= Len(new)
        old_entry == old[c.oi]
        new_entry == new[c.ni]
        added == Change(new_entry.path, new_entry.id,
                        IF is_newly_loaded(scanner_phase, c.last, new_entry.path)
                        THEN "Loaded" ELSE "Added")
        removed == Change(old_entry.path, old_entry.id, "Removed")
        same_path ==
            IF scanner_phase = "EventsReceivedDuringInitialScan"
            THEN [c EXCEPT !.oi = @ + 1, !.ni = @ + 1,
                    !.changes = @ \o changes_during_initial_scan(old_entry, new_entry)]
            ELSE IF old_entry.id # new_entry.id
            THEN [c EXCEPT !.oi = @ + 1, !.ni = @ + 1,
                    !.changes = @ \o <<removed, Change(new_entry.path, new_entry.id, "Added")>>]
            ELSE IF old_entry # new_entry
            THEN IF old_entry.kind = "UnloadedDir"
                 THEN [c EXCEPT !.oi = @ + 1, !.ni = @ + 1,
                        !.last = Some(new_entry.path),
                        !.changes = Append(@, Change(new_entry.path, new_entry.id, "Loaded"))]
                 ELSE [c EXCEPT !.oi = @ + 1, !.ni = @ + 1,
                        !.changes = Append(@, Change(new_entry.path, new_entry.id, "Updated"))]
            ELSE [c EXCEPT !.oi = @ + 1, !.ni = @ + 1]
    IN IF has_old /\ has_new
       THEN IF /\ PathLess(path, old_entry.path) /\ PathLess(path, new_entry.path)
               /\ ~starts_with(old_entry.path, path) /\ ~starts_with(new_entry.path, path)
            THEN c
            ELSE IF PathLess(old_entry.path, new_entry.path)
            THEN change_set_for_path(old, new, path, scanner_phase,
                    [c EXCEPT !.oi = @ + 1, !.changes = Append(@, removed)])
            ELSE IF old_entry.path = new_entry.path
            THEN change_set_for_path(old, new, path, scanner_phase, same_path)
            ELSE change_set_for_path(old, new, path, scanner_phase,
                    [c EXCEPT !.ni = @ + 1, !.changes = Append(@, added)])
       ELSE IF has_old
       THEN change_set_for_path(old, new, path, scanner_phase,
                [c EXCEPT !.oi = @ + 1, !.changes = Append(@, removed)])
       ELSE IF has_new
       THEN change_set_for_path(old, new, path, scanner_phase,
                [c EXCEPT !.ni = @ + 1, !.changes = Append(@, added)])
       ELSE c

RECURSIVE change_set_for_paths(_, _, _, _, _)
\* the outer loop of build_change_set over the changed paths
change_set_for_paths(old, new, event_paths, scanner_phase, c) ==
    IF event_paths = <<>> THEN c.changes
    ELSE
        LET path == Head(event_paths)
            oi == IF c.oi <= Len(old) /\ PathLess(old[c.oi].path, path)
                  THEN seek_forward(old, c.oi, path) ELSE c.oi
            ni == IF c.ni <= Len(new) /\ PathLess(new[c.ni].path, path)
                  THEN seek_forward(new, c.ni, path) ELSE c.ni
        IN change_set_for_paths(old, new, Tail(event_paths), scanner_phase,
                change_set_for_path(old, new, path, scanner_phase, [c EXCEPT !.oi = oi, !.ni = ni]))

build_change_set(old_snapshot, new_snapshot, event_paths, scanner_phase) ==
    change_set_for_paths(SortedByPath(old_snapshot.entries_by_path),
                         SortedByPath(new_snapshot.entries_by_path),
                         event_paths, scanner_phase,
                         [oi |-> 1, ni |-> 1, last |-> None, changes |-> <<>>])

\* ScanState
ScanStateStarted ==
    [type |-> "Started", snapshot |-> None, changes |-> <<>>, scanning |-> TRUE,
     barrier |-> {}]
ScanStateUpdated(snapshot, changes, scanning) ==
    [type |-> "Updated", snapshot |-> Some(snapshot), changes |-> changes, scanning |-> scanning,
     barrier |-> {}]

\* send_status_update, its early return; this variant returns whenever no
\* path has changed
status_update_skipped_when_unchanged(st, scanning) == st.changed_paths = {}

\* send_status_update returns without sending when no path has changed and
\* the scan goes on
status_update_skipped(st, scanning) == st.changed_paths = {} /\ scanning

\* BackgroundScanner::send_status_update: the state afterwards and the
\* messages sent (none or one)
send_status_update(st, scanning, scanner_phase) ==
    IF status_update_skipped(st, scanning) THEN [st |-> st, sent |-> <<>>]
    ELSE [st |-> [st EXCEPT !.prev_snapshot = SnapshotOf(st.snapshot), !.changed_paths = {}],
          sent |-> <<ScanStateUpdated(
                        st.snapshot,
                        build_change_set(st.prev_snapshot, st.snapshot,
                                         SortedPaths(st.changed_paths), scanner_phase),
                        scanning)>>]

\* the barrier senders handed to send_status_update travel with the message
\* it sends
with_barrier(sent, done) == [i \in DOMAIN sent |-> [sent[i] EXCEPT !.barrier = done]]

\* barrier::Sender dropped: the tasks waiting on the receivers may go on
drop_barrier(tasks, done) ==
    {IF t.kind \in done /\ t.pc = "wait" THEN [t EXCEPT !.pc = "released"] ELSE t :
        t \in tasks}

\* ------------------------------------------------------------------------
\* Deltas: changed_repos, build_update, build_initial_update
\* ------------------------------------------------------------------------
git_repository_of(ls, id) ==
    IF \E g \in ls.git_repositories : g.work_directory_id = id
    THEN Some(CHOOSE g \in ls.git_repositories : g.work_directory_id = id)
    ELSE None

\* LocalWorktree::changed_repos, the change for one work directory id
changed_repo(old_snapshot, new_snapshot, id) ==
    LET old_repo == git_repository_of(old_snapshot, id)
        new_repo == git_repository_of(new_snapshot, id)
        new_entry == entry_for_id(new_snapshot, id)
        old_entry == entry_for_id(old_snapshot, id)
    IN IF new_repo # None /\ old_repo = None
       THEN IF new_entry # None
            THEN <<[path |-> Unwrap(new_entry).path, old_repository |-> None]>>
            ELSE <<>>
       ELSE IF new_repo # None /\ old_repo # None
       THEN IF /\ \/ Unwrap(new_repo).git_dir_scan_id # Unwrap(old_repo).git_dir_scan_id
                  \/ Unwrap(new_repo).status_scan_id # Unwrap(old_repo).status_scan_id
               /\ new_entry # None
            THEN <<[path |-> Unwrap(new_entry).path,
                    old_repository |-> repository(old_snapshot, Unwrap(new_entry).path)]>>
            ELSE <<>>
       ELSE IF old_entry # None
            THEN <<[path |-> Unwrap(old_entry).path,
                    old_repository |-> repository(old_snapshot, Unwrap(old_entry).path)]>>
            ELSE <<>>

RECURSIVE changed_repos_of(_, _, _)
changed_repos_of(old_snapshot, new_snapshot, ids) ==
    IF ids = <<>> THEN <<>>
    ELSE changed_repo(old_snapshot, new_snapshot, Head(ids))
            \o changed_repos_of(old_snapshot, new_snapshot, Tail(ids))

\* LocalWorktree::changed_repos
changed_repos(old_snapshot, new_snapshot) ==
    changed_repos_of(old_snapshot, new_snapshot,
        SortedSeq({g.work_directory_id :
                    g \in old_snapshot.git_repositories \cup new_snapshot.git_repositories}))

\* Option<Arc<str>> as the proto's optional string
branch_to_proto(branch) == branch

\* RepositoryEntry::initial_update
repository_initial_update(repo) ==
    [work_directory_id |-> repo.work_directory_id,
     branch |-> branch_to_proto(repo.branch),
     updated_statuses |->
        LET sorted == SortedByRepoPath(repo.statuses_by_path)
        IN [i \in 1..Len(sorted) |-> status_entry_to_proto(sorted[i])],
     removed_statuses |-> <<>>]

\* RepositoryEntry::build_update
repository_build_update(repo, old) ==
    [work_directory_id |-> repo.work_directory_id,
     branch |-> branch_to_proto(repo.branch),
     updated_statuses |->
        LET sorted == SortedByRepoPath({x \in repo.statuses_by_path : x \notin old.statuses_by_path})
        IN [i \in 1..Len(sorted) |-> status_entry_to_proto(sorted[i])],
     removed_statuses |->
        LET sorted == SortedPaths({x.repo_path : x \in {y \in old.statuses_by_path :
                            \A n \in repo.statuses_by_path : n.repo_path # y.repo_path}})
        IN [i \in 1..Len(sorted) |-> to_string_lossy(sorted[i])]]

\* LocalSnapshot::build_update
build_update(ls, worktree_id, entry_changes, repo_changes) ==
    LET updated == {Unwrap(entry_for_id(ls, c.id)) :
                        c \in {d \in Range(entry_changes) :
                                d.change # "Removed" /\ entry_for_id(ls, d.id) # None}}
        removed == {c.id : c \in {d \in Range(entry_changes) : d.change = "Removed"}}
        new_repo(c) == repository(ls, c.path)
        updated_repositories ==
            {repository_build_update(Unwrap(new_repo(c)), Unwrap(c.old_repository)) :
                c \in {d \in Range(repo_changes) : d.old_repository # None /\ new_repo(d) # None}}
            \cup {repository_initial_update(Unwrap(new_repo(c))) :
                c \in {d \in Range(repo_changes) : d.old_repository = None /\ new_repo(d) # None}}
        removed_repositories ==
            {Unwrap(c.old_repository).work_directory_id :
                c \in {d \in Range(repo_changes) : d.old_repository # None /\ new_repo(d) = None}}
    IN [worktree_id |-> worktree_id,
        abs_path |-> to_string_lossy(ls.abs_path),
        root_name |-> ls.root_name,
        updated_entries |-> SortedById({proto_entry_from(e) : e \in updated}),
        removed_entries |-> SortedSeq(removed \ {e.id : e \in updated}),
        scan_id |-> ls.scan_id,
        is_last_update |-> (ls.completed_scan_id = ls.scan_id),
        updated_repositories |-> SortedByWorkDirectoryId(updated_repositories),
        removed_repositories |-> SortedSeq(removed_repositories)]

\* Snapshot::build_initial_update
build_initial_update(s, worktree_id) ==
    [worktree_id |-> worktree_id,
     abs_path |-> to_string_lossy(s.abs_path),
     root_name |-> s.root_name,
     updated_entries |-> SortedById({proto_entry_from(e) : e \in s.entries_by_path}),
     removed_entries |-> <<>>,
     scan_id |-> s.scan_id,
     is_last_update |-> (s.completed_scan_id = s.scan_id),
     updated_repositories |->
        SortedByWorkDirectoryId({repository_initial_update(r) : r \in s.repositories}),
     removed_repositories |-> <<>>]

\* ------------------------------------------------------------------------
\* A local worktree: its file system, scanner, facade and observer, and the
\* mirror the observer's updates are applied to
\* ------------------------------------------------------------------------
\* the path lists of the refresh requests of the environment
RequestPaths == {<< <<"a">> >>, << <<"a">>, <<"b">> >>}

\* the workers of a pool (BackgroundExecutor::num_cpus of them)
Workers == 1..num_cpus

WorkerOff ==
    [pc |-> "off", request |-> <<>>, done |-> {}, job |-> None, names |-> {},
     repo_job |-> None, repo |-> None]
GitTaskOff == [pc |-> "off", repo_updates |-> <<>>, repo |-> None]
ScannerAtRun == [pc |-> "run", dot_git_abs_paths |-> <<>>, prev_snapshot |-> None]
ScannerIdle == [pc |-> "idle", dot_git_abs_paths |-> <<>>, prev_snapshot |-> None]

\* a remote worktree that has received nothing
RemoteIdle ==
    /\ pending_updates = <<>>
    /\ remote_snapshot = SnapshotNew(WorktreeIdOfHost, RootName, RootAbsPath)
    /\ updates_rx = <<>>
    /\ snapshot_updated = FALSE
    /\ update_observer = None
    /\ delivered = <<>>
    /\ host = [scan_id |-> 0, repeated |-> FALSE, sent |-> 0, last_completed |-> 0]
    /\ reflected = [background |-> 0, foreground |-> 0]
    /\ updates_tx = TRUE
    /\ snapshot_subscriptions = <<>>
    /\ disconnected = FALSE
    /\ awaiters = <<>>
    /\ entry_tasks = {}

\* Worktree::local: the snapshot the facade and the scanner start with
InitialLocalSnapshot ==
    local_insert_entry(LocalSnapshotNew(WorktreeIdOfHost, RootName, RootAbsPath),
                       EntryNew(EMPTY_PATH, RootMetadata, 0), InitialFs)

\* a local worktree right after Worktree::local on the given file system, on
\* a machine with the given number of cpus and an environment with the given
\* moves left
InitLocalOn(f, cpus, moves) ==
    /\ fs = f
    /\ fs_events = {}
    /\ scan_requests = <<>>
    /\ budget = moves
    /\ num_cpus = cpus
    /\ next_entry_id = 1
    /\ state = BackgroundScannerStateNew(InitialLocalSnapshot)
    /\ phase = "InitialScan"
    /\ scanner = ScannerAtRun
    /\ scan_jobs = <<>>
    /\ ignore_queue = <<>>
    /\ workers = [w \in Workers |-> WorkerOff]
    /\ git_task = GitTaskOff
    /\ scan_states = <<>>
    /\ worktree = [snapshot |-> InitialLocalSnapshot, is_scanning |-> TRUE,
                   update_observer |-> FALSE, installed |-> 0, restarts |-> 0]
    /\ snapshots_rx = <<>>
    /\ observer = [is_first |-> TRUE, snapshot |-> None, serial |-> 0]

InitLocal(cpus, moves) == InitLocalOn(InitialFs, cpus, moves)

\* ---- the environment ----------------------------------------------------
\* .gitignore is rewritten and now ignores "a"
FsWriteGitignore ==
    /\ budget.fs_ops > 0
    /\ fs.ignored = {}
    /\ fs.nodes[GITIGNORE] # None
    /\ fs' = [fs EXCEPT !.ignored = {"a"},
                        !.nodes[GITIGNORE] = Some([Unwrap(@) EXCEPT !.mtime = @ + 1])]
    /\ budget' = [budget EXCEPT !.fs_ops = @ - 1]
    /\ fs_events' = fs_events \cup {<<GITIGNORE>>}
    /\ UNCHANGED <<scan_requests, num_cpus, scannerVars, worktree, snapshots_rx, observer,
                   remoteVars>>

\* the file "a" is renamed to "b"
FsRename ==
    /\ budget.fs_ops > 0
    /\ fs.nodes["a"] # None
    /\ fs.nodes["b"] = None
    /\ fs' = [fs EXCEPT !.nodes["b"] = fs.nodes["a"],
                        !.nodes["a"] = None,
                        !.statuses = {[repo_path |-> <<"a">>,
                                       status |-> Tracked("Unmodified", "Deleted")],
                                      [repo_path |-> <<"b">>, status |-> Untracked]}]
    /\ budget' = [budget EXCEPT !.fs_ops = @ - 1]
    /\ fs_events' = fs_events \cup {<<"a">>, <<"b">>}
    /\ UNCHANGED <<scan_requests, num_cpus, scannerVars, worktree, snapshots_rx, observer,
                   remoteVars>>

\* everything is committed: git reports no status any more
FsGitChange ==
    /\ budget.fs_ops > 0
    /\ fs.statuses # {}
    /\ fs' = [fs EXCEPT !.statuses = {}]
    /\ budget' = [budget EXCEPT !.fs_ops = @ - 1]
    /\ fs_events' = fs_events \cup {<<DOT_GIT>>}
    /\ UNCHANGED <<scan_requests, num_cpus, scannerVars, worktree, snapshots_rx, observer,
                   remoteVars>>

\* LocalWorktree::refresh_entries_for_paths
RefreshEntriesForPaths ==
    /\ budget.refreshes > 0
    /\ \E paths \in RequestPaths :
        scan_requests' = Append(scan_requests, [relative_paths |-> paths, done |-> {}])
    /\ budget' = [budget EXCEPT !.refreshes = @ - 1]
    /\ UNCHANGED <<fs, fs_events, num_cpus, scannerVars, worktree, snapshots_rx, observer, remoteVars>>

\* ---- BackgroundScanner: pieces shared by its tasks ----------------------
\* next_scan_request; this variant keeps the paths of the first request only
next_scan_request_first(requests) ==
    IF requests = <<>> THEN <<>> ELSE Head(requests).relative_paths

RECURSIVE next_scan_request(_)
\* BackgroundScanner::next_scan_request: all queued requests merged into one
next_scan_request(requests) ==
    IF requests = <<>> THEN <<>>
    ELSE Head(requests).relative_paths \o next_scan_request(Tail(requests))

RECURSIVE next_scan_request_done(_)
\* BackgroundScanner::next_scan_request: the barriers of the merged requests
next_scan_request_done(requests) ==
    IF requests = <<>> THEN {}
    ELSE Head(requests).done \cup next_scan_request_done(Tail(requests))

\* process_scan_request, the critical section that bumps the scan id; this
\* variant marks the scan complete whether or not the scanner was idle
process_scan_request_bump_always_complete(st) ==
    [st EXCEPT !.snapshot.scan_id = @ + 1,
               !.snapshot.completed_scan_id = st.snapshot.scan_id + 1]

\* process_scan_request, the critical section that bumps the scan id
\* (worktree.rs:4196-4203)
process_scan_request_bump(st) ==
    LET is_idle == st.snapshot.completed_scan_id = st.snapshot.scan_id
    IN [st EXCEPT !.snapshot.scan_id = @ + 1,
                  !.snapshot.completed_scan_id =
                        IF is_idle THEN st.snapshot.scan_id + 1 ELSE @]

\* run, the end of the initial scan (worktree.rs:4104-4107)
complete_initial_scan(st) ==
    [st EXCEPT !.snapshot.completed_scan_id = st.snapshot.scan_id]

\* process_events, the end of an event batch; this variant marks the next
\* scan complete
complete_events_ahead(st) ==
    [st EXCEPT !.snapshot.completed_scan_id = st.snapshot.scan_id + 1,
               !.removed_entries = {},
               !.scanned_dirs = @ \ {x.id : x \in st.removed_entries}]

\* process_events, the end of an event batch (worktree.rs:4351-4357)
complete_events(st) ==
    [st EXCEPT !.snapshot.completed_scan_id = st.snapshot.scan_id,
               !.removed_entries = {},
               !.scanned_dirs = @ \ {x.id : x \in st.removed_entries}]

RECURSIVE dedup_by_starts_with(_)
\* Vec::dedup_by(|a, b| a.starts_with(b)) on a sorted list of paths
dedup_by_starts_with(paths) ==
    IF Len(paths) <= 1 THEN paths
    ELSE LET rest == dedup_by_starts_with(SubSeq(paths, 1, Len(paths) - 1))
             last == paths[Len(paths)]
         IN IF starts_with(last, rest[Len(rest)]) THEN rest ELSE Append(rest, last)

\* the .git directory an event path lies in
dot_git_ancestor(path) ==
    IF DOT_GIT \in Range(path)
    THEN Some(SubSeq(path, 1, CHOOSE i \in 1..Len(path) :
                                /\ path[i] = DOT_GIT
                                /\ \A j \in (i + 1)..Len(path) : path[j] # DOT_GIT))
    ELSE None

\* process_events, the filter over the event paths; this variant keeps the
\* paths whose parent directory is not loaded
process_events_paths_below_unloaded(st, events) ==
    LET abs_paths == dedup_by_starts_with(SortedPaths(events))
        retained == SelectSeq(abs_paths, LAMBDA p : ~is_path_excluded(p))
        git_related == SelectSeq(abs_paths, LAMBDA p : dot_git_ancestor(p) # None)
    IN [relative_paths |-> retained,
        dot_git_abs_paths |->
            SortedPaths({Unwrap(dot_git_ancestor(git_related[i])) : i \in 1..Len(git_related)})]

\* process_events, the filter over the event paths: the paths to reload and
\* the .git directories touched
process_events_paths(st, events) ==
    LET abs_paths == dedup_by_starts_with(SortedPaths(events))
        parent_dir_is_loaded(p) ==
            \/ parent(p) = None
            \/ /\ entry_for_path(st.snapshot, Unwrap(parent(p))) # None
               /\ Unwrap(entry_for_path(st.snapshot, Unwrap(parent(p)))).kind = "Dir"
        retained == SelectSeq(abs_paths,
                        LAMBDA p : parent_dir_is_loaded(p) /\ ~is_path_excluded(p))
        git_related == SelectSeq(abs_paths, LAMBDA p : dot_git_ancestor(p) # None)
    IN [relative_paths |-> retained,
        dot_git_abs_paths |->
            SortedPaths({Unwrap(dot_git_ancestor(git_related[i])) : i \in 1..Len(git_related)})]

AllWorkers(pcs) == \A w \in Workers : workers[w].pc \in pcs
StartPool == [w \in Workers |-> [WorkerOff EXCEPT !.pc = "select"]]
StopPool == [w \in Workers |-> WorkerOff]

\* ---- BackgroundScanner::run, the main task ------------------------------
\* run up to the start of the initial scan: the scan id is bumped, the root
\* is queued and scan_dirs(true) announces the scan and starts its workers
ScannerStart ==
    /\ scanner.pc = "run"
    /\ LET bumped == [state EXCEPT !.snapshot.scan_id = @ + 1]
           root_entry == entry_for_path(bumped.snapshot, EMPTY_PATH)
           ignore_stack == ignore_stack_for_abs_path(bumped.snapshot, EMPTY_PATH, TRUE)
           ignored == is_abs_path_ignored(ignore_stack, EMPTY_PATH, TRUE)
           inserted == IF ignored
                       THEN scanner_insert_entry(
                                bumped, [Unwrap(root_entry) EXCEPT !.is_ignored = TRUE], fs)
                       ELSE bumped
           root == IF ignored THEN [Unwrap(root_entry) EXCEPT !.is_ignored = TRUE]
                   ELSE Unwrap(root_entry)
       IN IF root_entry = None
          THEN state' = bumped /\ scan_jobs' = <<>>
          ELSE state' = inserted /\ scan_jobs' = enqueue_scan_dir(inserted, root)
    /\ scan_states' = Append(scan_states, ScanStateStarted)
    /\ workers' = StartPool
    /\ scanner' = [scanner EXCEPT !.pc = "scan_dirs_initial"]
    /\ UNCHANGED <<envVars, next_entry_id, phase, ignore_queue, git_task, worktree,
                   snapshots_rx, observer, remoteVars>>

\* run after the initial scan: the scan is complete, the snapshot is sent
ScannerEndInitialScan ==
    /\ scanner.pc = "scan_dirs_initial"
    /\ AllWorkers({"exited"})
    /\ LET sent == send_status_update(complete_initial_scan(state), FALSE, phase)
       IN /\ state' = sent.st
          /\ scan_states' = scan_states \o sent.sent
    /\ phase' = "EventsReceivedDuringInitialScan"
    /\ workers' = StopPool
    /\ scanner' = [scanner EXCEPT !.pc = "poll_events"]
    /\ UNCHANGED <<envVars, next_entry_id, scan_jobs, ignore_queue, git_task, worktree,
                   snapshots_rx, observer, remoteVars>>

\* run: no event arrived during the initial scan
ScannerNoEarlyEvents ==
    /\ scanner.pc = "poll_events"
    /\ fs_events = {}
    /\ phase' = "Events"
    /\ scanner' = [scanner EXCEPT !.pc = "idle"]
    /\ UNCHANGED <<envVars, next_entry_id, state, scan_jobs, ignore_queue, workers, git_task,
                   scan_states, worktree, snapshots_rx, observer, remoteVars>>

\* select_biased!; this variant takes any arm that is ready, as select! does
select(ready, arm) == ready[arm]

\* select_biased!: the arm taken is ready and no arm written before it is
select_biased(ready, arm) == ready[arm] /\ \A i \in 1..(arm - 1) : ~ready[i]

\* process_events up to the pool of update_ignore_statuses: the events are
\* filtered, the scan id is bumped, the paths are reloaded and the ignore
\* jobs are queued
ScannerProcessEvents ==
    /\ \/ scanner.pc = "poll_events" /\ fs_events # {}
       \/ scanner.pc = "idle" /\ select_biased(<<scan_requests # <<>>, fs_events # {}>>, 2)
    /\ fs_events' = {}
    /\ LET paths == process_events_paths(state, fs_events)
           bumped == [state EXCEPT !.snapshot.scan_id = @ + 1]
           reloaded == reload_entries_for_paths(bumped, next_entry_id, paths.relative_paths,
                                                fs, TRUE)
           begun == update_ignore_statuses_begin(reloaded.st)
       IN IF paths.relative_paths = <<>> /\ paths.dot_git_abs_paths = <<>>
          THEN /\ phase' = "Events"
               /\ scanner' = [scanner EXCEPT !.pc = "idle"]
               /\ UNCHANGED <<next_entry_id, state, scan_jobs, ignore_queue, workers>>
          ELSE /\ state' = begun.st
               /\ next_entry_id' = reloaded.next_id
               /\ scan_jobs' = reloaded.jobs
               /\ ignore_queue' = begun.jobs
               /\ workers' = StartPool
               /\ scanner' = [pc |-> "update_ignore_statuses",
                              dot_git_abs_paths |-> paths.dot_git_abs_paths,
                              prev_snapshot |-> Some(begun.prev_snapshot)]
               /\ UNCHANGED phase
    /\ UNCHANGED <<fs, scan_requests, budget, num_cpus, git_task, scan_states, worktree,
                   snapshots_rx, observer, remoteVars>>

\* process_events: update_ignore_statuses is done, scan_dirs(false) starts
ScannerScanDirs ==
    /\ scanner.pc = "update_ignore_statuses"
    /\ AllWorkers({"exited"})
    /\ scan_states' = Append(scan_states, ScanStateStarted)
    /\ workers' = StartPool
    /\ scanner' = [scanner EXCEPT !.pc = "scan_dirs", !.prev_snapshot = None]
    /\ UNCHANGED <<envVars, next_entry_id, state, phase, scan_jobs, ignore_queue, git_task,
                   worktree, snapshots_rx, observer, remoteVars>>

\* process_events: scan_dirs is done and .git was touched;
\* update_git_repositories runs its critical section and starts its two tasks
ScannerUpdateGitRepositories ==
    /\ scanner.pc = "scan_dirs"
    /\ AllWorkers({"exited"})
    /\ scanner.dot_git_abs_paths # <<>>
    /\ LET begun == update_git_repositories_begin(state, scanner.dot_git_abs_paths, fs)
       IN /\ state' = begun.st
          /\ git_task' = [pc |-> IF begun.repo_updates = <<>> THEN "done" ELSE "read",
                          repo_updates |-> begun.repo_updates,
                          repo |-> None]
    /\ workers' = [w \in Workers |-> IF w = 1 THEN [WorkerOff EXCEPT !.pc = "select"]
                                     ELSE [WorkerOff EXCEPT !.pc = "exited"]]
    /\ scanner' = [scanner EXCEPT !.pc = "update_git_repositories"]
    /\ UNCHANGED <<envVars, next_entry_id, phase, scan_jobs, ignore_queue, scan_states,
                   worktree, snapshots_rx, observer, remoteVars>>

\* process_events at its end: the batch is complete, the snapshot is sent
ScannerEndEvents ==
    /\ \/ scanner.pc = "scan_dirs" /\ scanner.dot_git_abs_paths = <<>>
       \/ scanner.pc = "update_git_repositories" /\ git_task.pc = "done"
    /\ AllWorkers({"exited"})
    /\ LET sent == send_status_update(complete_events(state), FALSE, phase)
       IN /\ state' = sent.st
          /\ scan_states' = scan_states \o sent.sent
    /\ phase' = "Events"
    /\ workers' = StopPool
    /\ git_task' = GitTaskOff
    /\ scanner' = ScannerIdle
    /\ UNCHANGED <<envVars, next_entry_id, scan_jobs, ignore_queue, worktree, snapshots_rx,
                   observer, remoteVars>>

\* the main loop takes the queued refresh requests: process_scan_request
\* with scanning = false, run by the only task of the scanner
ScannerProcessScanRequest ==
    /\ scanner.pc = "idle"
    /\ select_biased(<<scan_requests # <<>>, fs_events # {}>>, 1)
    /\ scan_requests' = <<>>
    /\ LET paths == sort_unstable(next_scan_request(scan_requests))
           reloaded == reload_entries_for_paths(process_scan_request_bump(state),
                                                next_entry_id, paths, fs, FALSE)
           sent == send_status_update(reloaded.st, FALSE, phase)
       IN /\ state' = sent.st
          /\ next_entry_id' = reloaded.next_id
          /\ scan_states' = scan_states \o
                    with_barrier(sent.sent, next_scan_request_done(scan_requests))
    /\ UNCHANGED <<fs, fs_events, budget, num_cpus, phase, scanner, scan_jobs, ignore_queue, workers,
                   git_task, worktree, snapshots_rx, observer, remoteVars>>

\* ---- the workers of scan_dirs, update_ignore_statuses and the request
\* ---- task of update_git_repositories ------------------------------------
\* a worker takes the queued refresh requests (first arm of its select) and
\* bumps the scan id
WorkerTakeRequest(w) ==
    /\ workers[w].pc = "select"
    /\ select_biased(<<scan_requests # <<>>>>, 1)
    /\ scan_requests' = <<>>
    /\ state' = process_scan_request_bump(state)
    /\ workers' = [workers EXCEPT ![w].pc = "request_bumped",
                                  ![w].request = sort_unstable(next_scan_request(scan_requests)),
                                  ![w].done = next_scan_request_done(scan_requests)]
    /\ UNCHANGED <<fs, fs_events, budget, num_cpus, next_entry_id, phase, scanner, scan_jobs,
                   ignore_queue, git_task, scan_states, worktree, snapshots_rx, observer,
                   remoteVars>>

\* process_scan_request: reload_entries_for_paths without a scan queue
WorkerReloadEntries(w) ==
    /\ workers[w].pc = "request_bumped"
    /\ LET reloaded == reload_entries_for_paths(state, next_entry_id, workers[w].request,
                                                fs, FALSE)
       IN /\ state' = reloaded.st
          /\ next_entry_id' = reloaded.next_id
    /\ workers' = [workers EXCEPT ![w].pc = "request_reloaded"]
    /\ UNCHANGED <<envVars, phase, scanner, scan_jobs, ignore_queue, git_task, scan_states,
                   worktree, snapshots_rx, observer, remoteVars>>

\* process_scan_request: send_status_update(scanning = true, request.done);
\* when nothing is sent the barriers are dropped on return
WorkerSendStatusUpdate(w) ==
    /\ workers[w].pc = "request_reloaded"
    /\ LET sent == send_status_update(state, TRUE, phase)
       IN /\ state' = sent.st
          /\ scan_states' = scan_states \o with_barrier(sent.sent, workers[w].done)
          /\ entry_tasks' = IF sent.sent = <<>>
                            THEN drop_barrier(entry_tasks, workers[w].done)
                            ELSE entry_tasks
    /\ workers' = [workers EXCEPT ![w].pc = "select", ![w].request = <<>>, ![w].done = {}]
    /\ UNCHANGED <<envVars, next_entry_id, phase, scanner, scan_jobs, ignore_queue, git_task,
                   worktree, snapshots_rx, observer, mirrorVars>>

\* the progress timer of the initial scan fires (second arm of the select)
WorkerProgressUpdate(w) ==
    /\ scanner.pc = "scan_dirs_initial"
    /\ workers[w].pc = "select"
    /\ select_biased(<<scan_requests # <<>>, TRUE>>, 2)
    /\ state.changed_paths # {}
    /\ LET sent == send_status_update(state, TRUE, phase)
       IN /\ state' = sent.st
          /\ scan_states' = scan_states \o sent.sent
    /\ UNCHANGED <<envVars, next_entry_id, phase, scanner, scan_jobs, ignore_queue, workers,
                   git_task, worktree, snapshots_rx, observer, remoteVars>>

\* scan_dir up to the registration of the repository: the directory is
\* listed and, when it holds .git, insert_git_repository runs
WorkerScanDir(w) ==
    /\ scanner.pc \in {"scan_dirs_initial", "scan_dirs"}
    /\ workers[w].pc = "select"
    /\ select_biased(<<scan_requests # <<>>, scan_jobs # <<>>>>, 2)
    /\ scan_jobs' = Tail(scan_jobs)
    /\ LET job == Head(scan_jobs)
           names == fs_read_dir(fs, job.path)
           inserted == insert_git_repository(state, join(job.path, DOT_GIT), fs)
       IN IF DOT_GIT \in names
          THEN /\ state' = inserted.st
               /\ workers' = [workers EXCEPT
                                ![w].pc = IF inserted.repo = None THEN "dir_listed" ELSE "git_read",
                                ![w].job = Some(job),
                                ![w].names = names,
                                ![w].repo_job = inserted.repo]
          ELSE /\ state' = state
               /\ workers' = [workers EXCEPT ![w].pc = "dir_listed",
                                             ![w].job = Some(job),
                                             ![w].names = names]
    /\ UNCHANGED <<envVars, next_entry_id, phase, scanner, ignore_queue, git_task, scan_states,
                   worktree, snapshots_rx, observer, remoteVars>>

\* scan_dir, update_git_statuses: git is asked for the statuses and the
\* snapshot is cloned
WorkerGitStatusesRead(w) ==
    /\ workers[w].pc = "git_read"
    /\ LET repo == update_git_statuses_read(state, Unwrap(workers[w].repo_job), fs)
       IN workers' = [workers EXCEPT ![w].pc = IF repo = None THEN "dir_listed" ELSE "git_write",
                                     ![w].repo_job = None,
                                     ![w].repo = repo]
    /\ UNCHANGED <<envVars, next_entry_id, state, phase, scanner, scan_jobs, ignore_queue,
                   git_task, scan_states, worktree, snapshots_rx, observer, remoteVars>>

\* scan_dir, update_git_statuses: the repository entry is written back
WorkerGitStatusesWrite(w) ==
    /\ workers[w].pc = "git_write"
    /\ state' = update_git_statuses_write(state, Unwrap(workers[w].repo))
    /\ workers' = [workers EXCEPT ![w].pc = "dir_listed", ![w].repo = None]
    /\ UNCHANGED <<envVars, next_entry_id, phase, scanner, scan_jobs, ignore_queue, git_task,
                   scan_states, worktree, snapshots_rx, observer, remoteVars>>

\* scan_dir: the children are read and added to the snapshot in one batch
WorkerPopulateDir(w) ==
    /\ workers[w].pc = "dir_listed"
    /\ LET populated == scan_dir_populate(state, next_entry_id, Unwrap(workers[w].job),
                                          workers[w].names, fs)
       IN /\ state' = populated.st
          /\ next_entry_id' = populated.next_id
          /\ scan_jobs' = scan_jobs \o populated.jobs
    /\ workers' = [workers EXCEPT ![w].pc = "select", ![w].job = None, ![w].names = {}]
    /\ UNCHANGED <<envVars, phase, scanner, ignore_queue, git_task, scan_states, worktree,
                   snapshots_rx, observer, remoteVars>>

\* a worker of update_ignore_statuses takes a job: update_ignore_status
WorkerUpdateIgnoreStatus(w) ==
    /\ scanner.pc = "update_ignore_statuses"
    /\ workers[w].pc = "select"
    /\ select_biased(<<scan_requests # <<>>, ignore_queue # <<>>>>, 2)
    /\ LET updated == update_ignore_status(state, Head(ignore_queue),
                                           Unwrap(scanner.prev_snapshot))
       IN /\ state' = updated.st
          /\ ignore_queue' = Tail(ignore_queue) \o updated.ignore_jobs
          /\ scan_jobs' = scan_jobs \o updated.scan_jobs
    /\ UNCHANGED <<envVars, next_entry_id, phase, scanner, workers, git_task, scan_states,
                   worktree, snapshots_rx, observer, remoteVars>>

\* a worker leaves its loop: its queue is closed and empty
WorkerExit(w) ==
    /\ workers[w].pc = "select"
    /\ select_biased(
          <<scan_requests # <<>>,
            \/ /\ scanner.pc \in {"scan_dirs_initial", "scan_dirs"}
               /\ scan_jobs = <<>>
               /\ AllWorkers({"select", "exited", "request_bumped", "request_reloaded"})
            \/ /\ scanner.pc = "update_ignore_statuses"
               /\ ignore_queue = <<>>
            \/ /\ scanner.pc = "update_git_repositories"
               /\ git_task.pc = "done">>, 2)
    /\ workers' = [workers EXCEPT ![w].pc = "exited"]
    /\ UNCHANGED <<envVars, next_entry_id, state, phase, scanner, scan_jobs, ignore_queue,
                   git_task, scan_states, worktree, snapshots_rx, observer, remoteVars>>

\* ---- the status task of update_git_repositories -------------------------
GitTaskStatusesRead ==
    /\ git_task.pc = "read"
    /\ LET repo == update_git_statuses_read(state, Head(git_task.repo_updates), fs)
           rest == Tail(git_task.repo_updates)
       IN git_task' =
            IF repo = None
            THEN [pc |-> IF rest = <<>> THEN "done" ELSE "read",
                  repo_updates |-> rest, repo |-> None]
            ELSE [pc |-> "write", repo_updates |-> rest, repo |-> repo]
    /\ UNCHANGED <<envVars, next_entry_id, state, phase, scanner, scan_jobs, ignore_queue,
                   workers, scan_states, worktree, snapshots_rx, observer, remoteVars>>

GitTaskStatusesWrite ==
    /\ git_task.pc = "write"
    /\ state' = update_git_statuses_write(state, Unwrap(git_task.repo))
    /\ git_task' = [git_task EXCEPT !.pc = IF git_task.repo_updates = <<>> THEN "done" ELSE "read",
                                    !.repo = None]
    /\ UNCHANGED <<envVars, next_entry_id, phase, scanner, scan_jobs, ignore_queue, workers,
                   scan_states, worktree, snapshots_rx, observer, remoteVars>>

\* ---- LocalWorktree, the facade ------------------------------------------
\* LocalWorktree::set_snapshot; this variant sends the observer nothing
\* when no entry changed
set_snapshot_skipping_unchanged(wt, new_snapshot, entry_changes) ==
    LET repo_changes == changed_repos(wt.snapshot, new_snapshot)
    IN [worktree |-> [wt EXCEPT !.snapshot = new_snapshot,
                                !.installed = IF wt.update_observer THEN @ + 1 ELSE @],
        sent |-> IF wt.update_observer /\ entry_changes # <<>>
                 THEN <<[snapshot |-> new_snapshot,
                         entry_changes |-> entry_changes,
                         repo_changes |-> repo_changes,
                         serial |-> wt.installed + 1]>>
                 ELSE <<>>]

\* LocalWorktree::set_snapshot: the facade after it and what the observer's
\* channel is sent
set_snapshot(wt, new_snapshot, entry_changes) ==
    LET repo_changes == changed_repos(wt.snapshot, new_snapshot)
    IN [worktree |-> [wt EXCEPT !.snapshot = new_snapshot,
                                !.installed = IF wt.update_observer THEN @ + 1 ELSE @],
        sent |-> IF wt.update_observer
                 THEN <<[snapshot |-> new_snapshot,
                         entry_changes |-> entry_changes,
                         repo_changes |-> repo_changes,
                         serial |-> wt.installed + 1]>>
                 ELSE <<>>]

\* the task of start_background_scanner that receives the scanner's messages
ScanStateUpdater ==
    /\ scan_states # <<>>
    /\ scan_states' = Tail(scan_states)
    /\ LET message == Head(scan_states)
           installed == set_snapshot(worktree, Unwrap(message.snapshot), message.changes)
       IN IF message.type = "Started"
          THEN /\ worktree' = [worktree EXCEPT !.is_scanning = TRUE]
               /\ UNCHANGED snapshots_rx
          ELSE /\ worktree' = [installed.worktree EXCEPT !.is_scanning = message.scanning]
               /\ snapshots_rx' = snapshots_rx \o installed.sent
    /\ entry_tasks' = drop_barrier(entry_tasks, Head(scan_states).barrier)
    /\ UNCHANGED <<envVars, next_entry_id, state, phase, scanner, scan_jobs, ignore_queue,
                   workers, git_task, observer, mirrorVars>>

\* LocalWorktree::observe_updates: the channel starts with the current
\* snapshot and no changes
ObserveUpdates ==
    /\ ~worktree.update_observer
    /\ worktree' = [worktree EXCEPT !.update_observer = TRUE, !.installed = 1]
    /\ snapshots_rx' = <<[snapshot |-> worktree.snapshot, entry_changes |-> <<>>,
                          repo_changes |-> <<>>, serial |-> 1]>>
    /\ observer' = [is_first |-> TRUE, snapshot |-> None, serial |-> 0]
    /\ UNCHANGED <<envVars, scannerVars, remoteVars>>

\* the task of observe_updates: the next snapshot of its channel is turned
\* into an update, handed to the callback and applied to the mirror
ObserverSendUpdate ==
    /\ snapshots_rx # <<>>
    /\ snapshots_rx' = Tail(snapshots_rx)
    /\ LET next == Head(snapshots_rx)
           update == IF observer.is_first
                     THEN build_initial_update(SnapshotOf(next.snapshot), WorktreeIdOfHost)
                     ELSE build_update(next.snapshot, WorktreeIdOfHost,
                                       next.entry_changes, next.repo_changes)
       IN /\ background_snapshot' = apply_remote_update(background_snapshot, update)
          /\ observer' = [is_first |-> FALSE, snapshot |-> Some(next.snapshot),
                          serial |-> next.serial]
    /\ UNCHANGED <<envVars, scannerVars, worktree, pending_updates, remote_snapshot,
                   updates_rx, snapshot_updated, update_observer, delivered, host, reflected,
                   subscriptionVars>>

\* the state of a restarted scanner; this variant starts it from the
\* snapshot of a new worktree
restarted_scanner_state_from_scratch(wt) == BackgroundScannerStateNew(InitialLocalSnapshot)

\* restart_background_scanners, start_background_scanner: the state of the
\* new scanner is built from the facade's snapshot
restarted_scanner_state(wt) == BackgroundScannerStateNew(wt.snapshot)

\* LocalWorktree::restart_background_scanners: the running scanner and its
\* channels are dropped, a scanner is started from the facade's snapshot and
\* a refresh of the always included entries is requested
RestartBackgroundScanners ==
    /\ budget.restarts > 0
    /\ budget' = [budget EXCEPT !.restarts = @ - 1]
    /\ worktree' = [worktree EXCEPT !.restarts = @ + 1, !.is_scanning = TRUE]
    /\ state' = restarted_scanner_state(worktree)
    /\ phase' = "InitialScan"
    /\ scanner' = ScannerAtRun
    /\ scan_jobs' = <<>>
    /\ ignore_queue' = <<>>
    /\ workers' = StopPool
    /\ git_task' = GitTaskOff
    /\ scan_states' = <<>>
    /\ fs_events' = {}
    /\ scan_requests' = <<[relative_paths |-> <<>>, done |-> {}]>>
    /\ UNCHANGED <<fs, num_cpus, next_entry_id, snapshots_rx, observer, remoteVars>>

\* the scanner with its environment and the facade that installs its snapshots
NextScanner ==
    \/ FsWriteGitignore
    \/ FsRename
    \/ FsGitChange
    \/ RefreshEntriesForPaths
    \/ ScannerStart
    \/ ScannerEndInitialScan
    \/ ScannerNoEarlyEvents
    \/ ScannerProcessEvents
    \/ ScannerScanDirs
    \/ ScannerUpdateGitRepositories
    \/ ScannerEndEvents
    \/ ScannerProcessScanRequest
    \/ \E w \in Workers : WorkerTakeRequest(w)
    \/ \E w \in Workers : WorkerReloadEntries(w)
    \/ \E w \in Workers : WorkerSendStatusUpdate(w)
    \/ \E w \in Workers : WorkerProgressUpdate(w)
    \/ \E w \in Workers : WorkerScanDir(w)
    \/ \E w \in Workers : WorkerGitStatusesRead(w)
    \/ \E w \in Workers : WorkerGitStatusesWrite(w)
    \/ \E w \in Workers : WorkerPopulateDir(w)
    \/ \E w \in Workers : WorkerUpdateIgnoreStatus(w)
    \/ \E w \in Workers : WorkerExit(w)
    \/ GitTaskStatusesRead
    \/ GitTaskStatusesWrite
    \/ ScanStateUpdater

Moves(fs_ops, refreshes, restarts) ==
    [fs_ops |-> fs_ops, refreshes |-> refreshes, restarts |-> restarts]

MirrorEmpty ==
    /\ background_snapshot = SnapshotNew(WorktreeIdOfHost, RootName, RootAbsPath)
    /\ RemoteIdle

\* ---- a local worktree with an update observer feeding a mirror ----------
\* the environments: machine size and moves
Environments ==
    {[cpus |-> 1, moves |-> Moves(1, 1, 0)],
     [cpus |-> 2, moves |-> Moves(0, 1, 0)]}

Init ==
    /\ \E e \in Environments : InitLocal(e.cpus, e.moves)
    /\ MirrorEmpty

Next ==
    \/ NextScanner
    \/ ObserveUpdates
    \/ ObserverSendUpdate

Spec == Init /\ [][Next]_vars

\* ---- the scanner alone, in a busier environment -------------------------
ScannerEnvironments ==
    {[cpus |-> 1, moves |-> Moves(2, 1, 0)],
     [cpus |-> 2, moves |-> Moves(1, 1, 0)]}

InitScanner ==
    /\ \E e \in ScannerEnvironments : InitLocal(e.cpus, e.moves)
    /\ MirrorEmpty

SpecScanner == InitScanner /\ [][NextScanner]_vars

\* ---- a local worktree whose scanners are restarted ----------------------
RestartEnvironments ==
    {[cpus |-> 1, moves |-> Moves(1, 0, 1)],
     [cpus |-> 1, moves |-> Moves(0, 1, 1)],
     [cpus |-> 2, moves |-> Moves(1, 0, 1)]}

InitRestart ==
    /\ \E e \in RestartEnvironments : InitLocal(e.cpus, e.moves)
    /\ MirrorEmpty

NextRestart ==
    \/ NextScanner
    \/ RestartBackgroundScanners

SpecRestart == InitRestart /\ [][NextRestart]_vars
\* ------------------------------------------------------------------------
\* Properties of the local worktree
\* ------------------------------------------------------------------------
\* C1: in every state of the scanner, entries_by_path and entries_by_id of
\* its snapshot hold exactly the same (path, id) pairs, whatever the scans,
\* file system events and refresh requests.
LocalIndicesAgree == IndicesAgree(state.snapshot)

\* what a snapshot shows of its repositories
RepositoryView(s) ==
    {[path |-> r.path, branch |-> r.branch, statuses |-> r.statuses_by_path] :
        r \in s.repositories}

\* C3: whenever the observer has been handed the delta of a local snapshot
\* with completed_scan_id = scan_id, the mirror built from all deltas has
\* the repositories, branches and statuses of that snapshot.
MirrorRepositoriesAgree ==
    (/\ observer.snapshot # None
     /\ Unwrap(observer.snapshot).completed_scan_id = Unwrap(observer.snapshot).scan_id)
        => RepositoryView(background_snapshot) = RepositoryView(Unwrap(observer.snapshot))

\* what a snapshot shows through its accessors; of the kind of an entry,
\* whether it is a directory (all an update carries)
Observable(s) ==
    [abs_path |-> s.abs_path,
     root_name |-> s.root_name,
     scan_id |-> s.scan_id,
     completed_scan_id |-> s.completed_scan_id,
     entries |-> {[e EXCEPT !.kind = IF kind_is_dir(@) THEN "Dir" ELSE "File"] :
                    e \in s.entries_by_path},
     ids |-> PathIdPairs(s.entries_by_id),
     repositories |-> RepositoryView(s)]

\* the facade installs the snapshot of the next message of the scanner
InstallsSnapshot ==
    /\ scan_states # <<>>
    /\ Head(scan_states).type = "Updated"
    /\ scan_states' = Tail(scan_states)
    /\ worktree'.snapshot = Unwrap(Head(scan_states).snapshot)

\* C4: for the old and the new snapshot of every installation, the update
\* built by build_update from the entry changes and changed_repos, applied
\* to a mirror equal to the old snapshot, gives a mirror equal to the new
\* snapshot on every observable field.
DeltaRoundTrip ==
    [][InstallsSnapshot =>
        Observable(apply_remote_update(
            SnapshotOf(worktree.snapshot),
            build_update(worktree'.snapshot, WorktreeIdOfHost,
                         Head(scan_states).changes,
                         changed_repos(worktree.snapshot, worktree'.snapshot))))
        = Observable(worktree'.snapshot)]_vars

ScanIdsOrdered(s) == s.completed_scan_id <= s.scan_id

\* C5: in every state of the scanner, and for every snapshot it sends to
\* the facade or the facade has installed, completed_scan_id <= scan_id.
LocalScanIdsOrdered ==
    /\ ScanIdsOrdered(state.snapshot)
    /\ ScanIdsOrdered(worktree.snapshot)
    /\ \A i \in 1..Len(scan_states) :
        scan_states[i].type = "Updated" => ScanIdsOrdered(Unwrap(scan_states[i].snapshot))

\* one worker is about to send the snapshot of a refresh request while the
\* other is inside scan_dir, and the facade has a message to receive
LocalScanIdsOrderedWitness ==
    /\ num_cpus = 2
    /\ workers[1].pc = "request_reloaded"
    /\ workers[2].pc \in {"dir_listed", "git_write"}
    /\ state.snapshot.completed_scan_id < state.snapshot.scan_id
    /\ scan_states # <<>>

\* C6: on the mirror that is applied the observer's updates in the order
\* they are emitted, completed_scan_id <= scan_id after every update.
MirrorScanIdsOrdered == ScanIdsOrdered(background_snapshot)

\* the mirror has applied the initial update and two deltas, the last one
\* of a completed scan
MirrorScanIdsOrderedWitness ==
    /\ observer.serial >= 3
    /\ background_snapshot.completed_scan_id = background_snapshot.scan_id
    /\ background_snapshot.scan_id > 2

\* C7: over the snapshots the facade installs, scan_id and
\* completed_scan_id never decrease, a restart of the scanners included.
FacadeScanIdsMonotone ==
    [][/\ worktree'.snapshot.scan_id >= worktree.snapshot.scan_id
       /\ worktree'.snapshot.completed_scan_id >= worktree.snapshot.completed_scan_id]_vars

\* the scanners were restarted, the second scanner has completed its
\* initial scan and the facade has installed its snapshot
FacadeScanIdsMonotoneWitness ==
    /\ worktree.restarts = 1
    /\ scanner.pc = "idle"
    /\ scan_states = <<>>
    /\ worktree.snapshot = state.snapshot
    /\ worktree.snapshot.scan_id > 3

\* the step that ends the initial scan or an event batch
EndsPhase ==
    \/ scanner.pc = "scan_dirs_initial" /\ scanner'.pc = "poll_events"
    \/ scanner.pc \in {"scan_dirs", "update_git_repositories"} /\ scanner'.pc = "idle"

\* the main loop handles a refresh request while the scanner is idle
HandlesRequestWhileIdle ==
    /\ scanner.pc = "idle"
    /\ scanner'.pc = "idle"
    /\ scan_requests # <<>>
    /\ scan_requests' = <<>>
    /\ state.snapshot.completed_scan_id = state.snapshot.scan_id
    /\ state'.snapshot.scan_id = state.snapshot.scan_id + 1
    /\ state'.snapshot.completed_scan_id = state'.snapshot.scan_id

CompletedScanIdChanges ==
    state'.snapshot.completed_scan_id # state.snapshot.completed_scan_id

\* C8: within the scanner, completed_scan_id changes only at the end of the
\* initial scan or at the end of an event batch.
CompletedOnlyAtPhaseEnd ==
    [][CompletedScanIdChanges => EndsPhase]_vars

\* C8, amended: within the scanner, completed_scan_id changes only at the
\* end of the initial scan, at the end of an event batch, or when the main
\* loop handles a refresh request while idle, where it advances by one
\* together with scan_id.
CompletedOnlyAtPhaseEndOrIdleRequest ==
    [][CompletedScanIdChanges => (EndsPhase \/ HandlesRequestWhileIdle)]_vars

\* the facade holds the snapshot of the completed initial scan and the
\* scanner has since handled a refresh request, the file system unchanged
CompletedOnlyAtPhaseEndOrIdleRequestWitness ==
    /\ fs = InitialFs
    /\ budget.refreshes = 0
    /\ worktree.snapshot.scan_id = 2
    /\ worktree.snapshot.completed_scan_id = 2
    /\ state.snapshot.scan_id = 3
    /\ state.snapshot.completed_scan_id = 3

RECURSIVE NonDecreasing(_)
NonDecreasing(seq) ==
    Len(seq) <= 1 \/ (seq[1] <= seq[2] /\ NonDecreasing(Tail(seq)))

\* C9: the observer is handed the initial update and then one delta per
\* snapshot the facade installed, in the order of installation, and the
\* scan_id values of the updates do not decrease.
ObserverFollowsInstallations ==
    worktree.update_observer =>
        /\ \A i \in 1..Len(snapshots_rx) : snapshots_rx[i].serial = observer.serial + i
        /\ observer.serial + Len(snapshots_rx) = worktree.installed
        /\ IF snapshots_rx # <<>>
           THEN snapshots_rx[Len(snapshots_rx)].snapshot = worktree.snapshot
           ELSE observer.snapshot = Some(worktree.snapshot)
        /\ NonDecreasing(
              (IF observer.snapshot = None THEN <<>>
               ELSE <<Unwrap(observer.snapshot).scan_id>>)
              \o [i \in 1..Len(snapshots_rx) |-> snapshots_rx[i].snapshot.scan_id])

\* the observer has been handed the initial update and a delta, and two
\* more installed snapshots wait in its channel
ObserverFollowsInstallationsWitness ==
    /\ worktree.update_observer
    /\ observer.serial >= 2
    /\ Len(snapshots_rx) >= 2
\* ------------------------------------------------------------------------
\* Applying arbitrary well formed updates to a mirror
\* ------------------------------------------------------------------------
ApplyIds == 1..MaxEntryId
ApplyPaths == {EMPTY_PATH, <<"a">>, <<"b">>}

ProtoEntryAt(id, path) ==
    [id |-> id, is_dir |-> (path = EMPTY_PATH), path |-> path, inode |-> 10 + id,
     mtime |-> 1, is_ignored |-> FALSE, is_external |-> FALSE]

\* sets of proto entries with pairwise distinct ids and pairwise distinct paths
DistinctEntrySets ==
    {S \in SUBSET {ProtoEntryAt(id, path) : id \in ApplyIds, path \in ApplyPaths} :
        \A x, y \in S : x # y => (x.id # y.id /\ x.path # y.path)}

ProtoRepositoryAt(id) ==
    [work_directory_id |-> id, branch |-> "main",
     updated_statuses |-> <<>>, removed_statuses |-> <<>>]

AtMostOne(S) == {{}} \cup {{x} : x \in S}

\* Well formed updates: any entries with distinct ids and distinct paths, at
\* most one removed id, and the repository of work directory id 1 updated
\* or removed.
ArbitraryUpdates ==
    {[worktree_id |-> WorktreeIdOfHost,
      abs_path |-> RootAbsPath,
      root_name |-> RootName,
      updated_entries |-> SortedById(U),
      removed_entries |-> SortedSeq(R),
      scan_id |-> IF last THEN MaxScanId ELSE 1,
      is_last_update |-> last,
      updated_repositories |->
            SortedByWorkDirectoryId({ProtoRepositoryAt(i) : i \in (IF repo = "updated" THEN {1} ELSE {})}),
      removed_repositories |-> SortedSeq(IF repo = "removed" THEN {1} ELSE {})] :
        U \in DistinctEntrySets, R \in AtMostOne(ApplyIds),
        last \in BOOLEAN, repo \in {"same", "updated", "removed"}}

InitApply ==
    /\ InitLocal(1, [fs_ops |-> 0, refreshes |-> 0, restarts |-> 0])
    /\ background_snapshot = SnapshotNew(WorktreeIdOfHost, RootName, RootAbsPath)
    /\ RemoteIdle

\* one apply_remote_update of any well formed update
ApplyArbitraryUpdate ==
    /\ \E update \in ArbitraryUpdates :
        background_snapshot' = apply_remote_update(background_snapshot, update)
    /\ UNCHANGED <<localVars, pending_updates, remote_snapshot, updates_rx,
                   snapshot_updated, update_observer, delivered, host, reflected,
                   subscriptionVars>>

NextApply == ApplyArbitraryUpdate

SpecApply == InitApply /\ [][NextApply]_vars

\* C2: after apply_remote_update of an update with pairwise distinct ids and
\* pairwise distinct paths, entries_by_path and entries_by_id of the mirror
\* hold exactly the same (path, id) pairs.
RemoteIndicesAgree == IndicesAgree(background_snapshot)

\* after at least two updates: an id has moved to a path that another id
\* held, and a third id is present
RemoteIndicesWitness ==
    /\ <<<<"a">>, 2>> \in PathIdPairs(background_snapshot.entries_by_path)
    /\ <<<<"b">>, 1>> \in PathIdPairs(background_snapshot.entries_by_path)
    /\ Cardinality(background_snapshot.entries_by_id) = 3
    /\ background_snapshot.scan_id = 1
    /\ background_snapshot.completed_scan_id = MaxScanId

\* ------------------------------------------------------------------------
\* A remote worktree relaying the host's updates to its update observer
\* ------------------------------------------------------------------------
\* the updates of the host: entry 1 is at one of two paths; serial numbers
\* the updates in the order the host sends them
HostUpdate(scan_id, is_last_update, path, serial) ==
    [worktree_id |-> WorktreeIdOfHost,
     abs_path |-> RootAbsPath,
     root_name |-> RootName,
     updated_entries |-> <<ProtoEntryAt(1, path)>>,
     removed_entries |-> <<>>,
     scan_id |-> scan_id,
     is_last_update |-> is_last_update,
     updated_repositories |-> <<>>,
     removed_repositories |-> <<>>,
     serial |-> serial]

InitRemote ==
    /\ InitLocal(1, Moves(0, 0, 0))
    /\ MirrorEmpty

\* RemoteWorktree::observed_snapshot; this variant asks for a later scan
observed_snapshot_strict(s, scan_id) == s.completed_scan_id > scan_id

\* RemoteWorktree::observed_snapshot
observed_snapshot(s, scan_id) == s.completed_scan_id >= scan_id

\* the loop at the end of the foreground task: subscriptions are popped
\* from the front and their senders fired while the front one is observed
RECURSIVE release_subscriptions(_, _, _)
release_subscriptions(s, subscriptions, futures) ==
    IF subscriptions # <<>> /\ observed_snapshot(s, Head(subscriptions).scan_id)
    THEN release_subscriptions(s, Tail(subscriptions),
                               [futures EXCEPT ![Head(subscriptions).tx].outcome = "ok"])
    ELSE [snapshot_subscriptions |-> subscriptions, awaiters |-> futures]

\* the path of entry 1 in the host's updates of a scan: it moves with
\* every scan
HostPath(scan_id) == IF scan_id % 2 = 1 THEN <<"a">> ELSE <<"b">>

\* RemoteWorktree::update_from_remote with the next update of the host; the
\* host's scan ids do not decrease; a scan id is carried by one update or
\* by two, the second being the last update of the scan.  The update is
\* sent only while updates_tx is Some.
UpdateFromRemote ==
    /\ \E scan_id \in 1..MaxScanId :
        /\ \/ scan_id = host.scan_id + 1
           \/ scan_id = host.scan_id /\ ~host.repeated
        /\ updates_rx' =
                IF updates_tx
                THEN Append(updates_rx,
                            HostUpdate(scan_id, scan_id = host.scan_id, HostPath(scan_id),
                                       host.sent + 1))
                ELSE updates_rx
        /\ host' = [scan_id |-> scan_id, repeated |-> (scan_id = host.scan_id),
                    sent |-> host.sent + 1,
                    last_completed |-> IF updates_tx /\ scan_id = host.scan_id
                                       THEN scan_id ELSE host.last_completed]
    /\ UNCHANGED <<localVars, background_snapshot, pending_updates, remote_snapshot,
                   snapshot_updated, update_observer, delivered, reflected,
                   subscriptionVars>>

\* the background task of Worktree::remote: the update is applied to the
\* background snapshot, kept for the observer, and the foreground is woken
BackgroundApply ==
    /\ updates_rx # <<>>
    /\ updates_rx' = Tail(updates_rx)
    /\ background_snapshot' = apply_remote_update(background_snapshot, Head(updates_rx))
    /\ pending_updates' = Append(pending_updates, Head(updates_rx))
    /\ snapshot_updated' = TRUE
    /\ reflected' = [reflected EXCEPT !.background = Head(updates_rx).serial]
    /\ UNCHANGED <<localVars, remote_snapshot, update_observer, delivered, host,
                   subscriptionVars>>

\* the foreground task of Worktree::remote: the snapshot is replaced by the
\* background snapshot; the kept updates are forwarded if an observer
\* exists; the subscriptions the new snapshot satisfies are released
ForegroundPromote ==
    /\ snapshot_updated
    /\ snapshot_updated' = FALSE
    /\ remote_snapshot' = background_snapshot
    /\ reflected' = [reflected EXCEPT !.foreground = reflected.background]
    /\ IF update_observer # None
       THEN /\ update_observer' = Some(Unwrap(update_observer) \o pending_updates)
            /\ pending_updates' = <<>>
       ELSE UNCHANGED <<update_observer, pending_updates>>
    /\ LET released == release_subscriptions(background_snapshot, snapshot_subscriptions,
                                             awaiters)
       IN /\ snapshot_subscriptions' = released.snapshot_subscriptions
          /\ awaiters' = released.awaiters
    /\ UNCHANGED <<localVars, background_snapshot, updates_rx, delivered, host,
                   updates_tx, disconnected, entry_tasks>>

\* RemoteWorktree::observe_updates: the initial update is built from the
\* snapshot and is the first the callback is handed
RemoteObserveUpdates ==
    /\ update_observer = None
    /\ delivered = <<>>
    /\ update_observer' = Some(<<>>)
    /\ delivered' = <<[scan_id |->
                          build_initial_update(remote_snapshot, WorktreeIdOfHost).scan_id,
                       serial |-> 0,
                       reflects |-> reflected.foreground]>>
    /\ UNCHANGED <<localVars, background_snapshot, pending_updates, remote_snapshot,
                   updates_rx, snapshot_updated, host, reflected,
                   subscriptionVars>>

\* the task of observe_updates hands the next forwarded update to the callback
RemoteObserverCallback ==
    /\ update_observer # None
    /\ Unwrap(update_observer) # <<>>
    /\ update_observer' = Some(Tail(Unwrap(update_observer)))
    /\ delivered' = Append(delivered,
                           [scan_id |-> Head(Unwrap(update_observer)).scan_id,
                            serial |-> Head(Unwrap(update_observer)).serial,
                            reflects |-> Head(Unwrap(update_observer)).serial])
    /\ UNCHANGED <<localVars, background_snapshot, pending_updates, remote_snapshot,
                   updates_rx, snapshot_updated, host, reflected,
                   subscriptionVars>>

NextRemote ==
    \/ UpdateFromRemote
    \/ BackgroundApply
    \/ ForegroundPromote
    \/ RemoteObserveUpdates
    \/ RemoteObserverCallback

SpecRemote == InitRemote /\ [][NextRemote]_vars

\* C10: whenever the observer of a remote worktree is attached, what it is
\* handed (the initial update, then the forwarded updates) has scan ids that
\* do not decrease, and no forwarded update is one the initial update
\* already reflects.
RelayOrdered ==
    /\ NonDecreasing([i \in 1..Len(delivered) |-> delivered[i].scan_id])
    /\ \A i \in 2..Len(delivered) : delivered[i].serial > delivered[1].reflects

\* ------------------------------------------------------------------------
\* A remote worktree with wait_for_snapshot subscriptions, insert_entry /
\* delete_entry tasks and disconnected_from_host
\* ------------------------------------------------------------------------
Awaiter(scan_id, outcome, queued) ==
    [scan_id |-> scan_id, outcome |-> outcome, queued |-> queued]

\* Vec::insert at a (one based) index
insert_at(seq, ix, x) == SubSeq(seq, 1, ix - 1) \o <<x>> \o SubSeq(seq, ix, Len(seq))

\* where wait_for_snapshot puts a subscription; this variant pushes it to
\* the back
binary_search_by_key_back(subscriptions, scan_id) == {Len(subscriptions) + 1}

\* binary_search_by_key(&scan_id, |probe| probe.0) on the sorted queue:
\* Ok(ix) for any element with that key, else Err(ix) with the insertion point
binary_search_by_key(subscriptions, scan_id) ==
    IF \E i \in DOMAIN subscriptions : subscriptions[i].scan_id = scan_id
    THEN {i \in DOMAIN subscriptions : subscriptions[i].scan_id = scan_id}
    ELSE {1 + Cardinality({i \in DOMAIN subscriptions : subscriptions[i].scan_id < scan_id})}

\* RemoteWorktree::wait_for_snapshot; tx names the new future
wait_for_snapshot(s, is_disconnected, subscriptions, futures, scan_id, ix) ==
    LET tx == Len(futures) + 1
    IN IF observed_snapshot(s, scan_id)
       THEN [snapshot_subscriptions |-> subscriptions,
             awaiters |-> Append(futures, Awaiter(scan_id, "ok", FALSE))]
       ELSE IF is_disconnected
       THEN [snapshot_subscriptions |-> subscriptions,
             awaiters |-> Append(futures, Awaiter(scan_id, "failed", FALSE))]
       ELSE [snapshot_subscriptions |->
                insert_at(subscriptions, ix, [scan_id |-> scan_id, tx |-> tx]),
             awaiters |-> Append(futures, Awaiter(scan_id, "pending", TRUE))]

\* RemoteWorktree::disconnected_from_host; this variant keeps the
\* subscriptions
disconnected_from_host_keeping_subscriptions(subscriptions, futures) ==
    [updates_tx |-> FALSE, snapshot_subscriptions |-> subscriptions,
     awaiters |-> futures, disconnected |-> TRUE]

\* RemoteWorktree::disconnected_from_host: the senders of the cleared
\* subscriptions are dropped, which fails their futures
disconnected_from_host(subscriptions, futures) ==
    [updates_tx |-> FALSE,
     snapshot_subscriptions |-> <<>>,
     awaiters |-> [j \in DOMAIN futures |->
                    IF \E i \in DOMAIN subscriptions : subscriptions[i].tx = j
                    THEN [futures[j] EXCEPT !.outcome = "failed"]
                    ELSE futures[j]],
     disconnected |-> TRUE]

\* Snapshot::insert_entry
snapshot_insert_entry(s, proto_entry) ==
    LET entry == entry_try_from(proto_entry)
        old_entry == get_by_id(s.entries_by_id, entry.id)
        by_path == IF old_entry = None THEN s.entries_by_path
                   ELSE {x \in s.entries_by_path : x.path # Unwrap(old_entry).path}
    IN [s EXCEPT
         !.entries_by_id = {x \in @ : x.id # entry.id}
                             \cup {PathEntry(entry.id, entry.path, entry.is_ignored, 0)},
         !.entries_by_path = {x \in by_path : x.path # entry.path} \cup {entry}]

\* Snapshot::delete_entry
snapshot_delete_entry(s, entry_id) ==
    LET removed_entry == get_by_id(s.entries_by_id, entry_id)
        removed == {x \in s.entries_by_path : starts_with(x.path, Unwrap(removed_entry).path)}
    IN IF removed_entry = None THEN s
       ELSE [s EXCEPT
              !.entries_by_id = {x \in @ : /\ x.id # entry_id
                                           /\ \A r \in removed : r.id # x.id},
              !.entries_by_path = @ \ removed]

\* a caller of wait_for_snapshot
WaitForSnapshot ==
    /\ budget.waits > 0
    /\ budget' = [budget EXCEPT !.waits = @ - 1]
    /\ \E scan_id \in 1..MaxScanId,
          ix \in 1..(Len(snapshot_subscriptions) + 1) :
        /\ ix \in binary_search_by_key(snapshot_subscriptions, scan_id)
        /\ LET waited == wait_for_snapshot(remote_snapshot, disconnected,
                                           snapshot_subscriptions, awaiters, scan_id, ix)
           IN /\ snapshot_subscriptions' = waited.snapshot_subscriptions
              /\ awaiters' = waited.awaiters
    /\ UNCHANGED <<fs, fs_events, scan_requests, num_cpus, scannerVars, worktree,
                   snapshots_rx, observer,
                   background_snapshot, pending_updates, remote_snapshot,
                   updates_rx, snapshot_updated, update_observer, delivered, host, reflected,
                   updates_tx, disconnected, entry_tasks>>

\* RemoteWorktree::insert_entry with the entry and the scan id of the host's
\* response (the host's scan id is at least that of its last update), and
\* RemoteWorktree::delete_entry when the host's response has arrived: the
\* task waits for the snapshot
RemoteEntryRequest ==
    /\ budget.waits > 0
    /\ budget' = [budget EXCEPT !.waits = @ - 1]
    /\ entry_tasks = {}
    /\ \E scan_id \in host.scan_id..MaxScanId,
          ix \in 1..(Len(snapshot_subscriptions) + 1),
          kind \in {"insert_entry", "delete_entry"} :
        /\ ix \in binary_search_by_key(snapshot_subscriptions, scan_id)
        /\ kind = "delete_entry" => entry_for_id(remote_snapshot, 1) # None
        /\ LET waited == wait_for_snapshot(remote_snapshot, disconnected,
                                           snapshot_subscriptions, awaiters, scan_id, ix)
           IN /\ snapshot_subscriptions' = waited.snapshot_subscriptions
              /\ awaiters' = waited.awaiters
              /\ entry_tasks' = {[kind |-> kind, tx |-> Len(waited.awaiters)]}
    /\ UNCHANGED <<fs, fs_events, scan_requests, num_cpus, scannerVars, worktree,
                   snapshots_rx, observer,
                   background_snapshot, pending_updates, remote_snapshot,
                   updates_rx, snapshot_updated, update_observer, delivered, host, reflected,
                   updates_tx, disconnected>>

\* the task of insert_entry / delete_entry once its future is resolved: the
\* background snapshot is edited and copied to the worktree; a failed
\* future ends the task
RemoteEntryTask ==
    /\ \E task \in entry_tasks :
        /\ awaiters[task.tx].outcome # "pending"
        /\ entry_tasks' = entry_tasks \ {task}
        /\ IF awaiters[task.tx].outcome = "ok"
           THEN LET edited == IF task.kind = "insert_entry"
                              THEN snapshot_insert_entry(background_snapshot,
                                                         ProtoEntryAt(2, <<"b">>))
                              ELSE snapshot_delete_entry(background_snapshot, 1)
                IN /\ background_snapshot' = edited
                   /\ remote_snapshot' = edited
                   /\ reflected' = [reflected EXCEPT !.foreground = reflected.background]
           ELSE UNCHANGED <<background_snapshot, remote_snapshot, reflected>>
    /\ UNCHANGED <<localVars, pending_updates, updates_rx, snapshot_updated,
                   update_observer, delivered, host,
                   updates_tx, snapshot_subscriptions, disconnected, awaiters>>

\* RemoteWorktree::disconnected_from_host
DisconnectedFromHost ==
    /\ ~disconnected
    /\ LET after == disconnected_from_host(snapshot_subscriptions, awaiters)
       IN /\ updates_tx' = after.updates_tx
          /\ snapshot_subscriptions' = after.snapshot_subscriptions
          /\ awaiters' = after.awaiters
          /\ disconnected' = after.disconnected
    /\ UNCHANGED <<localVars, background_snapshot, pending_updates, remote_snapshot,
                   updates_rx, snapshot_updated, update_observer, delivered, host, reflected,
                   entry_tasks>>

NextSubscriptions ==
    \/ UpdateFromRemote
    \/ BackgroundApply
    \/ ForegroundPromote
    \/ WaitForSnapshot
    \/ RemoteEntryRequest
    \/ RemoteEntryTask
    \/ DisconnectedFromHost

\* the callers: how many futures of wait_for_snapshot are asked for
Callers(waits) == [fs_ops |-> 0, refreshes |-> 0, restarts |-> 0, waits |-> waits]

SubscriptionEnvironments == {Callers(3)}

InitSubscriptions ==
    /\ \E moves \in SubscriptionEnvironments : InitLocal(1, moves)
    /\ MirrorEmpty

SpecSubscriptions == InitSubscriptions /\ [][NextSubscriptions]_vars

FairSubscriptionEnvironments == {Callers(2)}

InitSubscriptionsFair ==
    /\ \E moves \in FairSubscriptionEnvironments : InitLocal(1, moves)
    /\ MirrorEmpty

\* the background task and the foreground task are spawned once and run
\* whenever their channel holds a value
SpecSubscriptionsFair ==
    /\ InitSubscriptionsFair
    /\ [][NextSubscriptions]_vars
    /\ WF_vars(BackgroundApply)
    /\ WF_vars(ForegroundPromote)

\* ------------------------------------------------------------------------
\* Properties of the subscriptions of a remote worktree
\* ------------------------------------------------------------------------
\* the futures the callers of FairSubscriptionEnvironments can ask for
FollowedAwaiters == {1, 2}

\* a step in which wait_for_snapshot returned a future
ReturnsFuture == Len(awaiters') > Len(awaiters)

\* a step of the foreground task: the only one that takes the value out of
\* the watch channel
Promotes == snapshot_updated /\ ~snapshot_updated'

Subscribed(subscriptions, tx) == \E i \in DOMAIN subscriptions : subscriptions[i].tx = tx

ReleaseOrder ==
    [][\A j \in DOMAIN awaiters' :
          (/\ awaiters'[j].outcome = "ok"
           /\ (j \in DOMAIN awaiters => awaiters[j].outcome = "pending"))
          => ~\E i \in DOMAIN awaiters' :
                /\ awaiters'[i].outcome = "pending"
                /\ awaiters'[i].scan_id < awaiters'[j].scan_id]_vars

Due(j) ==
    /\ j \in DOMAIN awaiters
    /\ awaiters[j].outcome = "pending"
    /\ host.last_completed >= awaiters[j].scan_id

Resolved(j) == j \in DOMAIN awaiters /\ awaiters[j].outcome = "ok"

\* C13: if no disconnect occurs and an update with is_last_update and
\* scan_id >= k has been delivered through update_from_remote, every future
\* of wait_for_snapshot(k), returned before or after the delivery,
\* eventually resolves successfully, the background task and the foreground
\* task being scheduled fairly.
AwaitersResolve ==
    \A j \in FollowedAwaiters : Due(j) ~> (disconnected \/ Resolved(j))

\* two futures were returned and have resolved, one of them after having
\* been queued for a scan whose last update was delivered later
AwaitersResolveWitness ==
    /\ ~disconnected
    /\ Len(awaiters) > 1
    /\ \A j \in DOMAIN awaiters : Resolved(j)
    /\ \E j \in DOMAIN awaiters :
        awaiters[j].queued /\ awaiters[j].scan_id = host.last_completed

\* C14: disconnected_from_host fails every pending future of
\* wait_for_snapshot and closes the updates channel, so that a later
\* update_from_remote has no effect; a later wait_for_snapshot(k) with
\* k > completed_scan_id fails at once and is not queued.
DisconnectFails ==
    [][/\ (~disconnected /\ disconnected') =>
            /\ ~updates_tx'
            /\ \A j \in DOMAIN awaiters :
                awaiters[j].outcome = "pending" => awaiters'[j].outcome = "failed"
       /\ (disconnected /\ host' # host) =>
            UNCHANGED <<updates_rx, background_snapshot, pending_updates, remote_snapshot,
                        snapshot_updated, subscriptionVars>>
       /\ (disconnected /\ ReturnsFuture) =>
            LET tx == Len(awaiters')
                future == awaiters'[tx]
            IN future.scan_id > remote_snapshot.completed_scan_id =>
                /\ future.outcome = "failed"
                /\ ~future.queued
                /\ snapshot_subscriptions' = snapshot_subscriptions]_vars

\* after a disconnect that failed a queued future: an update of the host
\* was dropped and a future asked for later failed without being queued
DisconnectFailsWitness ==
    /\ disconnected
    /\ host.sent > reflected.background + Len(updates_rx)
    /\ \E i, j \in DOMAIN awaiters :
        /\ awaiters[i].queued /\ awaiters[i].outcome = "failed"
        /\ ~awaiters[j].queued /\ awaiters[j].outcome = "failed"

\* a step of the background task: the only one that takes an update out of
\* the updates channel
AppliesUpdate == Len(updates_rx') < Len(updates_rx)

\* C15: apply_remote_update sets scan_id to the update's scan_id, and sets
\* completed_scan_id to it exactly when is_last_update is set, leaving it
\* unchanged otherwise: over the partial updates of a scan followed by the
\* last one, completed_scan_id changes only with the last one.
AppliedScanIds ==
    [][AppliesUpdate =>
        LET update == Head(updates_rx)
        IN /\ background_snapshot'.scan_id = update.scan_id
           /\ background_snapshot'.completed_scan_id =
                IF update.is_last_update THEN update.scan_id
                ELSE background_snapshot.completed_scan_id]_vars

\* a partial update of the second scan has been applied after the last
\* update of the first
AppliedScanIdsWitness ==
    /\ background_snapshot.scan_id = 2
    /\ background_snapshot.completed_scan_id = 1
    /\ reflected.background = 3
\* ------------------------------------------------------------------------
\* LocalWorktree::rename_entry, on file systems with and without case
\* sensitivity
\* ------------------------------------------------------------------------
RenameTask(pc, entry_id, old_path, new_path, result) ==
    [kind |-> "rename_entry", pc |-> pc, entry_id |-> entry_id,
     old_path |-> old_path, new_path |-> new_path, result |-> result]

\* rename_entry of the entry at "a" to "A", with the rename it spawns:
\* Fs::rename overwrites only for a case-only rename on a file system that
\* is not case sensitive and fails if the source is gone
RenameEntry ==
    /\ entry_tasks = {}
    /\ \E entry \in worktree.snapshot.entries_by_path :
        /\ entry.path = <<"a">>
        /\ LET old_path == entry.path
               new_path == <<"A">>
               overwrite == /\ ~fs_is_case_sensitive(fs)
                            /\ old_path # new_path
                            /\ to_lowercase(file_name(old_path)) = to_lowercase(file_name(new_path))
               source == canonical_file_name(fs, file_name(old_path))
               target == canonical_file_name(fs, file_name(new_path))
           IN IF fs.nodes[source] = None \/ (fs.nodes[target] # None /\ ~overwrite)
              THEN /\ entry_tasks' = {RenameTask("done", entry.id, old_path, new_path, "err")}
                   /\ UNCHANGED <<fs, fs_events>>
              ELSE /\ fs' = [fs EXCEPT
                                !.nodes = [n \in FsNames |->
                                            IF n = file_name(new_path) THEN fs.nodes[source]
                                            ELSE IF n \in {source, target} THEN None
                                            ELSE fs.nodes[n]],
                                !.statuses = {[repo_path |-> old_path,
                                               status |-> Tracked("Unmodified", "Deleted")],
                                              [repo_path |-> new_path, status |-> Untracked]}]
                   /\ fs_events' = fs_events \cup {old_path, new_path}
                   /\ entry_tasks' = {RenameTask("renamed", entry.id, old_path, new_path, "pending")}
    /\ UNCHANGED <<scan_requests, budget, num_cpus, scannerVars, worktree, snapshots_rx,
                   observer, mirrorVars>>

\* rename_entry after the rename: refresh_entry(new_path, Some(old_path))
RenameEntryRefresh ==
    /\ \E t \in entry_tasks :
        /\ t.pc = "renamed"
        /\ scan_requests' = Append(scan_requests,
                                   [relative_paths |-> <<t.old_path, t.new_path>>,
                                    done |-> {t.kind}])
        /\ entry_tasks' = (entry_tasks \ {t}) \cup {[t EXCEPT !.pc = "wait"]}
    /\ UNCHANGED <<fs, fs_events, budget, num_cpus, scannerVars, worktree, snapshots_rx,
                   observer, mirrorVars>>

\* refresh_entry after the barrier: the entry at the new path is read from
\* the worktree's snapshot
RenameEntryComplete ==
    /\ \E t \in entry_tasks :
        /\ t.pc = "released"
        /\ entry_tasks' = (entry_tasks \ {t}) \cup
                {[t EXCEPT !.pc = "done",
                           !.result = IF entry_for_path(worktree.snapshot, t.new_path) # None
                                      THEN "ok" ELSE "err"]}
    /\ UNCHANGED <<localVars, mirrorVars>>

CaselessEnvironments ==
    {[fs |-> CaselessFs, cpus |-> 2, moves |-> Moves(0, 0, 0)],
     [fs |-> InitialFs, cpus |-> 1, moves |-> Moves(1, 1, 0)]}

InitCaseless ==
    /\ \E e \in CaselessEnvironments : InitLocalOn(e.fs, e.cpus, e.moves)
    /\ MirrorEmpty

NextCaseless ==
    \/ NextScanner
    \/ RenameEntry
    \/ RenameEntryRefresh
    \/ RenameEntryComplete

SpecCaseless == InitCaseless /\ [][NextCaseless]_vars

\* ------------------------------------------------------------------------
\* A local worktree on a file system with hard links
\* ------------------------------------------------------------------------
\* the file with the given name is written: the mtime of its inode changes
\* under every name linked to it, the event names the path written through
FsWrite(name) ==
    /\ budget.fs_ops > 0
    /\ fs.nodes[name] # None
    /\ ~Unwrap(fs.nodes[name]).is_dir
    /\ fs' = [fs EXCEPT !.nodes =
                [n \in FsNames |->
                    IF fs.nodes[n] # None
                       /\ Unwrap(fs.nodes[n]).inode = Unwrap(fs.nodes[name]).inode
                    THEN Some([Unwrap(fs.nodes[n]) EXCEPT !.mtime = @ + 1])
                    ELSE fs.nodes[n]]]
    /\ budget' = [budget EXCEPT !.fs_ops = @ - 1]
    /\ fs_events' = fs_events \cup {<<name>>}
    /\ UNCHANGED <<scan_requests, num_cpus, scannerVars, worktree, snapshots_rx, observer,
                   remoteVars>>

LinkEnvironments ==
    {[fs |-> InitialFs, cpus |-> 2, moves |-> Moves(1, 1, 0)],
     [fs |-> LinkedFs, cpus |-> 1, moves |-> Moves(2, 0, 0)]}

InitLinks ==
    /\ \E e \in LinkEnvironments : InitLocalOn(e.fs, e.cpus, e.moves)
    /\ MirrorEmpty

NextLinks ==
    \/ NextScanner
    \/ \E name \in {"a", "b"} : FsWrite(name)

SpecLinks == InitLinks /\ [][NextLinks]_vars


\* ------------------------------------------------------------------------
\* Entry ids across the batches of the scanner
\* ------------------------------------------------------------------------
\* C16: if the entry at a path P is removed in a batch and an entry at a
\* path Q is inserted in the same batch with the same inode and (the same
\* mtime or Q = P), the entry at Q has the id the entry at P had, whatever the
\* order of the paths and also when several removed entries share the inode.
RenameReuse ==
    [][\A P \in state.snapshot.entries_by_path, Q \in state'.snapshot.entries_by_path :
          (/\ P \notin state'.snapshot.entries_by_path
           /\ Q \notin state.snapshot.entries_by_path
           /\ P.inode = Q.inode
           /\ (P.mtime = Q.mtime \/ P.path = Q.path))
          => Q.id = P.id]_vars

\* a step that starts a batch (an event batch or a refresh request) while no
\* batch is under way
StartsBatch ==
    /\ state.snapshot.completed_scan_id = state.snapshot.scan_id
    /\ state'.snapshot.scan_id > state.snapshot.scan_id

\* C18: when a batch starts the removed-entries map holds no entry of an
\* earlier batch, and every entry present after the batch has started has an
\* id that an entry had right before the batch or an id never handed out
\* before.
IdsNotReusedAcrossBatches ==
    [][StartsBatch =>
          /\ state.removed_entries = {}
          /\ \A Q \in state'.snapshot.entries_by_path :
                \/ \E P \in state.snapshot.entries_by_path : P.id = Q.id
                \/ Q.id >= next_entry_id]_vars

\* C17: after rename_entry of "a" to "A" has completed on a file system that
\* is not case sensitive, the worktree holds exactly one entry for the file:
\* it is at "A" and has the id the entry had before the rename, and no entry
\* is at "a".
CaseOnlyRename ==
    \A t \in entry_tasks :
        (t.kind = "rename_entry" /\ t.pc = "done" /\ ~fs_is_case_sensitive(fs)) =>
            /\ entry_for_path(worktree.snapshot, t.old_path) = None
            /\ {e.id : e \in {x \in worktree.snapshot.entries_by_path :
                                to_lowercase(file_name(x.path)) =
                                    to_lowercase(file_name(t.new_path))}} = {t.entry_id}
            /\ entry_for_path(worktree.snapshot, t.new_path) # None

\* the work directory ids of the repository index and of the local
\* repository map
RepositoryIds(s) == {r.work_directory_id : r \in s.repositories}
LocalRepositoryIds(s) == {g.work_directory_id : g \in s.git_repositories}

\* no batch is under way in the scanner
BetweenBatches ==
    /\ scanner.pc = "idle"
    /\ state.snapshot.completed_scan_id = state.snapshot.scan_id

\* C19: after every batch, whatever the interleaving of the scan workers,
\* the git status jobs and the refresh requests, every RepositoryEntry has a
\* LocalRepositoryEntry under its work_directory_id and every
\* LocalRepositoryEntry has a RepositoryEntry.
RepositoriesAgree ==
    BetweenBatches => RepositoryIds(state.snapshot) = LocalRepositoryIds(state.snapshot)

\* every repository of the snapshot has an entry at its work directory path
\* and that entry has the repository's work_directory_id
HasWorkDirectories(s) ==
    \A r \in s.repositories :
        /\ entry_for_path(s, r.path) # None
        /\ Unwrap(entry_for_path(s, r.path)).id = r.work_directory_id

\* C20: after every batch of the scanner every RepositoryEntry of the local
\* snapshot has its work directory entry, and after every
\* apply_remote_update so has every RepositoryEntry of the mirror.
WorkDirectoriesPresent ==
    /\ BetweenBatches => HasWorkDirectories(state.snapshot)
    /\ HasWorkDirectories(background_snapshot)
\* ------------------------------------------------------------------------
\* A local worktree in which a nested repository comes and goes
\* ------------------------------------------------------------------------
\* the directory "d" is created and a repository initialised in it; the
\* events below "d" are dropped by process_events for the event of "d"
FsCreateRepository ==
    /\ budget.fs_ops > 0
    /\ fs.nodes["d"] = None
    /\ fs' = [fs EXCEPT !.nodes["d"] = Some([inode |-> 5, mtime |-> 0, is_dir |-> TRUE])]
    /\ budget' = [budget EXCEPT !.fs_ops = @ - 1]
    /\ fs_events' = fs_events \cup {<<"d">>}
    /\ UNCHANGED <<scan_requests, num_cpus, scannerVars, worktree, snapshots_rx, observer,
                   remoteVars>>

\* the directory "d" is deleted with everything in it
FsRemoveRepository ==
    /\ budget.fs_ops > 0
    /\ fs.nodes["d"] # None
    /\ fs' = [fs EXCEPT !.nodes["d"] = None]
    /\ budget' = [budget EXCEPT !.fs_ops = @ - 1]
    /\ fs_events' = fs_events \cup {<<"d">>}
    /\ UNCHANGED <<scan_requests, num_cpus, scannerVars, worktree, snapshots_rx, observer,
                   remoteVars>>

\* LocalWorktree::refresh_entries_for_paths for the directory "d"
RefreshDirectory ==
    /\ budget.refreshes > 0
    /\ scan_requests' = Append(scan_requests, [relative_paths |-> << <<"d">> >>, done |-> {}])
    /\ budget' = [budget EXCEPT !.refreshes = @ - 1]
    /\ UNCHANGED <<fs, fs_events, num_cpus, scannerVars, worktree, snapshots_rx, observer,
                   remoteVars>>

NestedEnvironments ==
    {[fs |-> EmptyFs, cpus |-> 2, moves |-> Moves(2, 1, 0)],
     [fs |-> InitialFs, cpus |-> 1, moves |-> Moves(1, 1, 0)]}

InitNested ==
    /\ \E e \in NestedEnvironments : InitLocalOn(e.fs, e.cpus, e.moves)
    /\ MirrorEmpty

NextNested ==
    \/ NextScanner
    \/ FsCreateRepository
    \/ FsRemoveRepository
    \/ RefreshDirectory

SpecNested == InitNested /\ [][NextNested]_vars


\* ------------------------------------------------------------------------
\* LocalWorktree::create_entry of the file src/a.txt on an empty root
\* ------------------------------------------------------------------------
\* Path::ancestors: the path, its parent, ... down to the empty path
ancestors(path) == [i \in 1..(Len(path) + 1) |-> SubSeq(path, 1, Len(path) + 1 - i)]

\* LocalWorktree::lowest_ancestor
lowest_ancestor(s, path) ==
    LET known == {i \in 1..(Len(path) + 1) : entry_for_path(s, ancestors(path)[i]) # None}
    IN IF known = {} THEN EMPTY_PATH
       ELSE ancestors(path)[CHOOSE i \in known : \A j \in known : i <= j]

\* create_entry, the paths it calls refresh_entry for: the ancestors of the
\* path below the lowest known ancestor, the path first, and the path again
\* for the result
create_entry_refreshes(path, lowest) ==
    SelectSeq(ancestors(SubSeq(path, Len(lowest) + 1, Len(path))),
              LAMBDA p : p # EMPTY_PATH)
        \o <<path>>

CreateTask(kind, pc, path, scan_id) ==
    [kind |-> kind, pc |-> pc, path |-> path, result |-> "pending", scan_id |-> scan_id,
     sent |-> 0]

\* the k-th refresh_entry of create_entry; the last one gives the result
RefreshKinds == <<"refresh_entry 1", "refresh_entry 2", "refresh_entry 3">>

\* the scanner waits in the select of its main loop and everything it sent
\* has been installed
Quiescent ==
    /\ scanner.pc = "idle"
    /\ scan_requests = <<>>
    /\ fs_events = {}
    /\ scan_states = <<>>

\* create_entry(src/a.txt, is_dir = false) is called on a root that holds
\* nothing while the scanner is idle: the write is spawned and the lowest
\* ancestor looked up
CreateEntry ==
    /\ entry_tasks = {}
    /\ Quiescent
    /\ \A name \in FsNames : fs.nodes[name] = None
    /\ lowest_ancestor(worktree.snapshot, SrcFile) = EMPTY_PATH
    /\ entry_tasks' = {CreateTask("create_entry", "write", SrcFile,
                                  worktree.snapshot.scan_id)}
    /\ UNCHANGED <<localVars, mirrorVars>>

\* the write task: Fs::save creates the file and the directory above it
CreateEntryWrite ==
    /\ \E t \in entry_tasks :
        /\ t.kind = "create_entry" /\ t.pc = "write"
        /\ entry_tasks' = (entry_tasks \ {t}) \cup {[t EXCEPT !.pc = "written"]}
    /\ fs' = [fs EXCEPT !.nodes["src"] = Some([inode |-> 7, mtime |-> 0, is_dir |-> TRUE])]
    /\ fs_events' = fs_events \cup {<<"src">>, SrcFile}
    /\ UNCHANGED <<scan_requests, budget, num_cpus, scannerVars, worktree, snapshots_rx,
                   observer, mirrorVars>>

\* create_entry after the write: the next refresh_entry sends its request
\* and spawns the task that waits for the barrier
CreateEntryRefresh ==
    /\ \E t \in entry_tasks :
        /\ t.kind = "create_entry" /\ t.pc = "written"
        /\ LET refreshes == create_entry_refreshes(t.path, EMPTY_PATH)
               k == t.sent + 1
           IN /\ scan_requests' = Append(scan_requests,
                                         [relative_paths |-> <<refreshes[k]>>,
                                          done |-> {RefreshKinds[k]}])
              /\ entry_tasks' = (entry_tasks \ {t}) \cup
                    {[t EXCEPT !.sent = k,
                               !.pc = IF k = Len(refreshes) THEN "wait" ELSE "written"],
                     CreateTask(RefreshKinds[k], "wait", refreshes[k], t.scan_id)}
    /\ UNCHANGED <<fs, fs_events, budget, num_cpus, scannerVars, worktree, snapshots_rx,
                   observer, mirrorVars>>

\* refresh_entry after the barrier: the entry is read from the worktree
RefreshEntryComplete ==
    /\ \E t \in entry_tasks :
        /\ t.kind \in Range(RefreshKinds) /\ t.pc = "released"
        /\ entry_tasks' = (entry_tasks \ {t}) \cup
                {[t EXCEPT !.pc = "done",
                           !.result = IF entry_for_path(worktree.snapshot, t.path) # None
                                      THEN "ok" ELSE "err"]}
    /\ UNCHANGED <<localVars, mirrorVars>>

\* create_entry at its end: every refresh has been awaited, the last one
\* gives the result
CreateEntryComplete ==
    /\ \E t \in entry_tasks :
        /\ t.kind = "create_entry" /\ t.pc = "wait"
        /\ \A k \in DOMAIN RefreshKinds :
                \E r \in entry_tasks : r.kind = RefreshKinds[k] /\ r.pc = "done"
        /\ entry_tasks' = (entry_tasks \ {t}) \cup
                {[t EXCEPT !.pc = "done",
                           !.result = (CHOOSE r \in entry_tasks :
                                        r.kind = RefreshKinds[Len(RefreshKinds)]).result]}
    /\ UNCHANGED <<localVars, mirrorVars>>

CreateEnvironments ==
    {[fs |-> EmptyFs, cpus |-> 2, moves |-> Moves(0, 0, 0)],
     [fs |-> InitialFs, cpus |-> 1, moves |-> Moves(1, 1, 0)]}

InitCreate ==
    /\ \E e \in CreateEnvironments : InitLocalOn(e.fs, e.cpus, e.moves)
    /\ MirrorEmpty

NextCreate ==
    \/ NextScanner
    \/ CreateEntry
    \/ CreateEntryWrite
    \/ CreateEntryRefresh
    \/ RefreshEntryComplete
    \/ CreateEntryComplete

SpecCreate == InitCreate /\ [][NextCreate]_vars

\* the step in which the task returned by create_entry completes
CompletesCreate ==
    \E t \in entry_tasks :
        /\ t.kind = "create_entry" /\ t.pc = "wait"
        /\ \E d \in entry_tasks' : d.kind = "create_entry" /\ d.pc = "done"

\* the entries below the root, as (path, is a directory)
EntriesBelowRoot(s) ==
    {<<e.path, kind_is_dir(e.kind)>> : e \in {x \in s.entries_by_path : x.path # EMPTY_PATH}}

\* the scan id the worktree had when the create_entry under way was called
ScanIdAtCall == (CHOOSE t \in entry_tasks : t.kind = "create_entry").scan_id

\* C21: create_entry of src/a.txt on an empty root with an idle scanner ends
\* with exactly the entries src (directory) and src/a.txt (file) below the
\* root, and the worktree's scan_id has advanced by at least 2 between the
\* call and the completion of the returned task.
CreateAndObserve ==
    [][CompletesCreate =>
          /\ EntriesBelowRoot(worktree.snapshot) = {<< <<"src">>, TRUE>>, <<SrcFile, FALSE>>}
          /\ worktree.snapshot.scan_id >= ScanIdAtCall + 2]_vars

\* C21 as amended: the same entries, and the scan id has advanced by at
\* least 1 (requests that are pending together are merged into one scan)
CreateAndObserveOnce ==
    [][CompletesCreate =>
          /\ EntriesBelowRoot(worktree.snapshot) = {<< <<"src">>, TRUE>>, <<SrcFile, FALSE>>}
          /\ worktree.snapshot.scan_id >= ScanIdAtCall + 1]_vars

\* create_entry has completed with the scan id advanced by exactly 1: its
\* three requests were merged
CreateAndObserveOnceWitness ==
    \E t \in entry_tasks :
        /\ t.kind = "create_entry" /\ t.pc = "done" /\ t.result = "ok"
        /\ worktree.snapshot.scan_id = t.scan_id + 1
        /\ EntriesBelowRoot(worktree.snapshot) = {<< <<"src">>, TRUE>>, <<SrcFile, FALSE>>}

\* ------------------------------------------------------------------------
\* Worktree::delete_entry on a remote worktree holding a tree of entries
\* ------------------------------------------------------------------------
\* the paths of the host's tree, in the order of entries_by_path
TreePaths == <<EMPTY_PATH, <<"a">>, <<"a", "b">>, <<"a", "b", "a">>, <<"a.txt">>, <<"b">> >>
TreeDirs == {EMPTY_PATH, <<"a">>, <<"a", "b">>}

\* the host numbers its entries in the order of their paths or against it
TreeEntry(k, ascending) ==
    [ProtoEntryAt(IF ascending THEN k ELSE Len(TreePaths) + 1 - k, TreePaths[k])
        EXCEPT !.is_dir = (TreePaths[k] \in TreeDirs)]

\* the first update of a host whose worktree holds some of the paths
TreeUpdates ==
    {[HostUpdate(1, TRUE, EMPTY_PATH, 1) EXCEPT
        !.updated_entries = SortedById({TreeEntry(k, ascending) : k \in present})] :
        present \in SUBSET (1..Len(TreePaths)), ascending \in BOOLEAN}

\* RemoteWorktree::update_from_remote with the host's first update
UpdateFromTreeHost ==
    /\ host.sent = 0
    /\ updates_tx
    /\ \E update \in TreeUpdates : updates_rx' = Append(updates_rx, update)
    /\ host' = [host EXCEPT !.sent = 1, !.scan_id = 1, !.last_completed = 1]
    /\ UNCHANGED <<localVars, background_snapshot, pending_updates, remote_snapshot,
                   snapshot_updated, update_observer, delivered, reflected,
                   subscriptionVars>>

\* the cursor of Snapshot::child_entries after seek(parent_path, Bias::Right):
\* the position of the first entry above the path
seek_right(entries, path) ==
    LET above == {i \in 1..Len(entries) : PathLess(path, entries[i].path)}
    IN IF above = {} THEN Len(entries) + 1 ELSE CHOOSE i \in above : \A j \in above : i <= j

\* Traversal::advance_to_sibling; this variant moves to the next entry, as
\* Traversal::advance does
advance(entries, i) == i + 1

\* Traversal::advance_to_sibling: the cursor moves forward to the first
\* entry that is not below the current one (files, directories and ignored
\* entries are all included)
advance_to_sibling(entries, i) ==
    LET beyond == {j \in (i + 1)..Len(entries) :
                        ~starts_with(entries[j].path, entries[i].path)}
    IN IF beyond = {} THEN Len(entries) + 1 ELSE CHOOSE j \in beyond : \A k \in beyond : j <= k

RECURSIVE child_entries_from(_, _, _)
\* ChildEntriesIter::next, repeated up to None
child_entries_from(entries, parent_path, i) ==
    IF i <= Len(entries) /\ starts_with(entries[i].path, parent_path)
    THEN <<entries[i]>> \o child_entries_from(entries, parent_path,
                                              advance_to_sibling(entries, i))
    ELSE <<>>

\* Snapshot::child_entries as the sequence its iterator yields
child_entries_iter(s, parent_path) ==
    LET entries == SortedByPath(s.entries_by_path)
    IN child_entries_from(entries, parent_path, seek_right(entries, parent_path))

RECURSIVE get_children_ids_recursive(_, _)
RECURSIVE children_ids_of(_, _)
\* the loop of get_children_ids_recursive over the children
children_ids_of(s, children) ==
    IF children = <<>> THEN <<>>
    ELSE <<Head(children).id>> \o get_children_ids_recursive(s, Head(children).path)
            \o children_ids_of(s, Tail(children))

\* Worktree::get_children_ids_recursive: the ids it pushes
get_children_ids_recursive(s, path) == children_ids_of(s, child_entries_iter(s, path))

\* Worktree::delete_entry: whether a task is returned and the ids of the
\* DeletedEntry events, in the order they are emitted
delete_entry(s, entry_id) ==
    IF entry_for_id(s, entry_id) = None THEN [returned |-> None, events |-> <<>>]
    ELSE [returned |-> Some("task"),
          events |-> <<entry_id>> \o
                        get_children_ids_recursive(s, Unwrap(entry_for_id(s, entry_id)).path)]

\* Worktree::delete_entry is called: RemoteWorktree::delete_entry sends the
\* request and spawns its task, then the events are emitted
DeleteEntry ==
    /\ entry_tasks = {}
    /\ \E entry_id \in 1..Len(TreePaths) :
        entry_tasks' = {[kind |-> "delete_entry", entry_id |-> entry_id,
                         returned |-> delete_entry(remote_snapshot, entry_id).returned,
                         events |-> delete_entry(remote_snapshot, entry_id).events]}
    /\ UNCHANGED <<localVars, mirrorVars>>

\* the task of RemoteWorktree::delete_entry when the host has answered with
\* a scan id the worktree has observed: the entry is deleted from the
\* background snapshot, which becomes the worktree's snapshot; a task that
\* was not returned to the caller is dropped
DeleteEntryTask ==
    /\ \E task \in entry_tasks :
        /\ task.kind = "delete_entry"
        /\ entry_tasks' = entry_tasks \ {task}
        /\ IF task.returned # None
           THEN /\ background_snapshot' = snapshot_delete_entry(background_snapshot,
                                                                task.entry_id)
                /\ remote_snapshot' = background_snapshot'
                /\ reflected' = [reflected EXCEPT !.foreground = reflected.background]
           ELSE UNCHANGED <<background_snapshot, remote_snapshot, reflected>>
    /\ UNCHANGED <<localVars, pending_updates, updates_rx, snapshot_updated,
                   update_observer, delivered, host,
                   updates_tx, snapshot_subscriptions, disconnected, awaiters>>

NextDelete ==
    \/ UpdateFromTreeHost
    \/ BackgroundApply
    \/ ForegroundPromote
    \/ DeleteEntry
    \/ DeleteEntryTask

SpecDelete == InitRemote /\ [][NextDelete]_vars

\* the entries below a path, the path's own entry left out
Descendants(s, path) ==
    {x \in s.entries_by_path : starts_with(x.path, path) /\ x.path # path}

\* the ids of the records of a sequence
IdsOf(entries) == [i \in 1..Len(entries) |-> entries[i].id]

\* C23: Worktree::delete_entry(id) for an id present in the snapshot emits
\* DeletedEntry(id) first and then DeletedEntry for every descendant of that
\* entry, each exactly once, in depth-first order of the path tree (the
\* order of the paths); for an id that is not in the snapshot it returns
\* None and emits no event.
DeleteEntryEvents ==
    [][\A task \in entry_tasks' \ entry_tasks :
        task.kind = "delete_entry" =>
            LET entry == entry_for_id(remote_snapshot, task.entry_id)
            IN IF entry = None
               THEN task.returned = None /\ task.events = <<>>
               ELSE /\ task.returned # None
                    /\ task.events =
                        <<task.entry_id>> \o
                            IdsOf(SortedByPath(Descendants(remote_snapshot,
                                                           Unwrap(entry).path)))]_vars

\* the directory a, which has a child and a grandchild and a sibling whose
\* name starts with its name, is being deleted: three events
DeleteEntryEventsWitness ==
    \E task \in entry_tasks :
        /\ task.kind = "delete_entry"
        /\ entry_for_id(remote_snapshot, task.entry_id) # None
        /\ Unwrap(entry_for_id(remote_snapshot, task.entry_id)).path = <<"a">>
        /\ Len(task.events) = 3
        /\ entry_for_path(remote_snapshot, <<"a.txt">>) # None
        /\ entry_for_path(remote_snapshot, <<"b">>) = None

\* ------------------------------------------------------------------------
\* A remote worktree handed updates that name any worktree
\* ------------------------------------------------------------------------
\* the worktree ids an update may carry: the id of the receiving worktree
\* and the id of another one
UpdateWorktreeIds == {WorktreeIdOfHost, WorktreeIdOfHost + 1}

AnyWorktreeUpdates ==
    {[HostUpdate(scan_id, is_last_update, path, 0) EXCEPT !.worktree_id = id] :
        scan_id \in 1..MaxScanId, is_last_update \in BOOLEAN,
        path \in {<<"a">>, <<"b">>}, id \in UpdateWorktreeIds}

\* RemoteWorktree::update_from_remote with an update of any worktree
UpdateFromAnyWorktree ==
    /\ host.sent < MaxScanId
    /\ updates_tx
    /\ \E update \in AnyWorktreeUpdates :
        updates_rx' = Append(updates_rx, [update EXCEPT !.serial = host.sent + 1])
    /\ host' = [host EXCEPT !.sent = @ + 1]
    /\ UNCHANGED <<localVars, background_snapshot, pending_updates, remote_snapshot,
                   snapshot_updated, update_observer, delivered, reflected,
                   subscriptionVars>>

NextForeign ==
    \/ UpdateFromAnyWorktree
    \/ BackgroundApply
    \/ ForegroundPromote

SpecForeign == InitRemote /\ [][NextForeign]_vars

\* the background task applies an update whose worktree_id is not the id of
\* the snapshot
AppliesForeignUpdate ==
    /\ updates_rx # <<>>
    /\ updates_rx' = Tail(updates_rx)
    /\ Head(updates_rx).worktree_id # background_snapshot.id

\* C22: applying an UpdateWorktree whose worktree_id differs from the id of
\* the receiving snapshot leaves the snapshot (entries, repositories,
\* abs_path, root_name, scan_id, completed_scan_id) unchanged.
ForeignUpdateRejected ==
    [][AppliesForeignUpdate => background_snapshot' = background_snapshot]_vars

\* ------------------------------------------------------------------------
\* process_events followed through its filter: the state mutex and the
\* file system calls of is_git_dir
\* ------------------------------------------------------------------------
\* the scanner inside process_events: the event paths still to filter, the
\* ancestors of the current one still to ask is_git_dir about, whether the
\* guard of self.state.lock() is alive, the file system call in progress
FilterTask(events, abs_paths) ==
    [kind |-> "process_events", pc |-> "retain", events |-> events, abs_paths |-> abs_paths,
     ancestors |-> <<>>, holds_lock |-> FALSE, io |-> None]

\* process_events: the events are taken, sorted and deduplicated
ProcessEventsSort ==
    /\ \/ scanner.pc = "poll_events" /\ fs_events # {}
       \/ scanner.pc = "idle" /\ select_biased(<<scan_requests # <<>>, fs_events # {}>>, 2)
    /\ entry_tasks = {}
    /\ fs_events' = {}
    /\ scanner' = [scanner EXCEPT !.pc = "process_events"]
    /\ entry_tasks' = {FilterTask(fs_events, dedup_by_starts_with(SortedPaths(fs_events)))}
    /\ UNCHANGED <<fs, scan_requests, budget, num_cpus, next_entry_id, state, phase, scan_jobs,
                   ignore_queue, workers, git_task, scan_states, worktree, snapshots_rx,
                   observer, mirrorVars>>

\* the closure of abs_paths.retain begins for the next path:
\* `let snapshot = &self.state.lock().snapshot` keeps the guard until the
\* closure returns
RetainLock ==
    /\ \E task \in entry_tasks :
        /\ task.kind = "process_events"
        /\ task.pc = "retain"
        /\ task.abs_paths # <<>>
        /\ entry_tasks' = {[task EXCEPT
                              !.pc = "find",
                              !.holds_lock = TRUE,
                              !.ancestors = ancestors(RootAbsPath \o Head(task.abs_paths))]}
    /\ UNCHANGED <<localVars, mirrorVars>>

\* abs_path.ancestors().find(..): is_git_dir answers from the name, or calls
\* fs.metadata for HEAD
FindGitDir ==
    /\ \E task \in entry_tasks :
        /\ task.kind = "process_events"
        /\ task.pc = "find"
        /\ entry_tasks' =
            {IF task.ancestors = <<>> \/ file_name(Head(task.ancestors)) = DOT_GIT
             THEN [task EXCEPT !.pc = "filter"]
             ELSE [task EXCEPT !.pc = "metadata", !.io = Some("metadata")]}
    /\ UNCHANGED <<localVars, mirrorVars>>

\* fs.metadata returns: no directory of the file system holds HEAD, so
\* is_git_dir is false and find moves to the next ancestor
MetadataReturns ==
    /\ \E task \in entry_tasks :
        /\ task.kind = "process_events"
        /\ task.pc = "metadata"
        /\ entry_tasks' = {[task EXCEPT !.pc = "find", !.io = None,
                                        !.ancestors = Tail(task.ancestors)]}
    /\ UNCHANGED <<localVars, mirrorVars>>

\* the closure returns and the guard is dropped
RetainUnlock ==
    /\ \E task \in entry_tasks :
        /\ task.kind = "process_events"
        /\ task.pc = "filter"
        /\ entry_tasks' = {[task EXCEPT !.pc = "retain", !.holds_lock = FALSE,
                                        !.ancestors = <<>>,
                                        !.abs_paths = Tail(task.abs_paths)]}
    /\ UNCHANGED <<localVars, mirrorVars>>

\* process_events after the filter, up to the pool of
\* update_ignore_statuses: the scan id is bumped, the paths are reloaded and
\* the ignore jobs are queued
ProcessEventsReload ==
    /\ \E task \in entry_tasks :
        /\ task.kind = "process_events"
        /\ task.pc = "retain"
        /\ task.abs_paths = <<>>
        /\ entry_tasks' = {}
        /\ LET paths == process_events_paths(state, task.events)
               bumped == [state EXCEPT !.snapshot.scan_id = @ + 1]
               reloaded == reload_entries_for_paths(bumped, next_entry_id,
                                                    paths.relative_paths, fs, TRUE)
               begun == update_ignore_statuses_begin(reloaded.st)
           IN IF paths.relative_paths = <<>> /\ paths.dot_git_abs_paths = <<>>
              THEN /\ phase' = "Events"
                   /\ scanner' = [scanner EXCEPT !.pc = "idle"]
                   /\ UNCHANGED <<next_entry_id, state, scan_jobs, ignore_queue, workers>>
              ELSE /\ state' = begun.st
                   /\ next_entry_id' = reloaded.next_id
                   /\ scan_jobs' = reloaded.jobs
                   /\ ignore_queue' = begun.jobs
                   /\ workers' = StartPool
                   /\ scanner' = [pc |-> "update_ignore_statuses",
                                  dot_git_abs_paths |-> paths.dot_git_abs_paths,
                                  prev_snapshot |-> Some(begun.prev_snapshot)]
                   /\ UNCHANGED phase
    /\ UNCHANGED <<envVars, git_task, scan_states, worktree, snapshots_rx, observer,
                   mirrorVars>>

NextLock ==
    \/ FsWriteGitignore
    \/ FsRename
    \/ FsGitChange
    \/ RefreshEntriesForPaths
    \/ ScannerStart
    \/ ScannerEndInitialScan
    \/ ScannerNoEarlyEvents
    \/ ProcessEventsSort
    \/ RetainLock
    \/ FindGitDir
    \/ MetadataReturns
    \/ RetainUnlock
    \/ ProcessEventsReload
    \/ ScannerScanDirs
    \/ ScannerUpdateGitRepositories
    \/ ScannerEndEvents
    \/ ScannerProcessScanRequest
    \/ \E w \in Workers : WorkerTakeRequest(w)
    \/ \E w \in Workers : WorkerReloadEntries(w)
    \/ \E w \in Workers : WorkerSendStatusUpdate(w)
    \/ \E w \in Workers : WorkerProgressUpdate(w)
    \/ \E w \in Workers : WorkerScanDir(w)
    \/ \E w \in Workers : WorkerGitStatusesRead(w)
    \/ \E w \in Workers : WorkerGitStatusesWrite(w)
    \/ \E w \in Workers : WorkerPopulateDir(w)
    \/ \E w \in Workers : WorkerUpdateIgnoreStatus(w)
    \/ \E w \in Workers : WorkerExit(w)
    \/ GitTaskStatusesRead
    \/ GitTaskStatusesWrite
    \/ ScanStateUpdater

SpecLock == Init /\ [][NextLock]_vars

\* C28: no filesystem primitive (metadata, load, canonicalize, read_dir,
\* open_repo) is invoked while the BackgroundScannerState mutex is held: in
\* every reachable scanner state, a task that is performing filesystem I/O
\* does not hold the lock.
NoIoUnderLock ==
    \A task \in entry_tasks :
        task.kind = "process_events" => ~(task.holds_lock /\ task.io # None)

\* ------------------------------------------------------------------------
\* Refresh requests against events and queued jobs
\* ------------------------------------------------------------------------
\* the main loop takes the pending events
MainLoopTakesEvents ==
    /\ scanner.pc = "idle"
    /\ fs_events # {}
    /\ fs_events' = {}

\* a worker of scan_dirs takes the next scan job
TakesScanJob ==
    /\ scan_jobs # <<>>
    /\ Len(scan_jobs') = Len(scan_jobs) - 1

\* a worker of update_ignore_statuses takes the next ignore job
TakesIgnoreJob ==
    /\ scanner.pc = "update_ignore_statuses"
    /\ ignore_queue # <<>>
    /\ ignore_queue' # ignore_queue

\* the request task of update_git_repositories takes the message that the
\* statuses are done
TakesUpdatesDone ==
    /\ scanner.pc = "update_git_repositories"
    /\ \E w \in Workers : workers[w].pc = "select" /\ workers'[w].pc = "exited"

\* C27: whenever a refresh request and a filesystem event batch are both
\* pending when the scanner's main loop selects, the refresh request is
\* processed first; and inside the scan, ignore-update and git-update worker
\* loops a pending refresh request is taken before the next queued job.
RequestPriority ==
    [][scan_requests # <<>> =>
          ~(MainLoopTakesEvents \/ TakesScanJob \/ TakesIgnoreJob \/ TakesUpdatesDone)]_vars

\* the only worker of scan_dirs has just taken a refresh request while a
\* scan job was queued, and events are pending too
RequestPriorityWitness ==
    /\ num_cpus = 1
    /\ scanner.pc \in {"scan_dirs_initial", "scan_dirs"}
    /\ workers[1].pc = "request_bumped"
    /\ scan_jobs # <<>>
    /\ fs_events # {}

\* ------------------------------------------------------------------------
\* Snapshot::repository_for_path on a remote worktree holding nested
\* repositories
\* ------------------------------------------------------------------------
\* the first update of a host whose worktree holds every path of the tree
\* and repositories in some of them
RepositoryUpdates ==
    {[HostUpdate(1, TRUE, EMPTY_PATH, 1) EXCEPT
        !.updated_entries = SortedById({TreeEntry(k, TRUE) : k \in 1..Len(TreePaths)}),
        !.updated_repositories =
            SortedByWorkDirectoryId({ProtoRepositoryAt(k) : k \in work_directories})] :
        work_directories \in SUBSET (1..Len(TreePaths))}

\* RemoteWorktree::update_from_remote with the host's first update
UpdateFromRepositoryHost ==
    /\ host.sent = 0
    /\ updates_tx
    /\ \E update \in RepositoryUpdates : updates_rx' = Append(updates_rx, update)
    /\ host' = [host EXCEPT !.sent = 1, !.scan_id = 1, !.last_completed = 1]
    /\ UNCHANGED <<localVars, background_snapshot, pending_updates, remote_snapshot,
                   snapshot_updated, update_observer, delivered, reflected,
                   subscriptionVars>>

\* PathTarget::cmp_path of PathTarget::Contains; this variant compares as
\* PathTarget::Path does, by the order of the paths
cmp_path_path(path, other) ==
    IF path = other THEN "Equal" ELSE IF PathLess(path, other) THEN "Less" ELSE "Greater"

\* PathTarget::cmp_path of PathTarget::Contains
cmp_path_contains(path, other) ==
    IF starts_with(path, other) THEN "Equal" ELSE "Greater"

\* Cursor::seek_forward(PathTarget::Contains(path), Bias::Left) on the
\* repository index: the first position at or after ix whose work directory
\* the target does not compare greater than
seek_forward_contains(repositories, ix, path) ==
    LET found == {k \in ix..Len(repositories) :
                    cmp_path_contains(path, repositories[k].path) # "Greater"}
    IN IF found = {} THEN Len(repositories) + 1
       ELSE CHOOSE k \in found : \A j \in found : k <= j

RECURSIVE repository_for_path_from(_, _, _, _)
\* the loop of repository_for_path: seek forward, keep the item, step over it
repository_for_path_from(repositories, ix, path, last) ==
    LET k == seek_forward_contains(repositories, ix, path)
    IN IF k <= Len(repositories)
       THEN repository_for_path_from(repositories, k + 1, path, Some(repositories[k]))
       ELSE last

\* Snapshot::repository_for_path as the loop over the cursor computes it
repository_for_path_cursor(s, path) ==
    repository_for_path_from(SortedByPath(s.repositories), 1, path, None)

\* the paths repository_for_path is asked for: the paths of the tree and
\* paths that have no entry
QueryPaths == Range(TreePaths) \cup {<<"a", "b", "d">>, <<"a.txt", "b">>, <<"d">>, <<"b", "a">>}

\* a caller asks for the repository of a path
RepositoryForPath ==
    /\ \E path \in QueryPaths :
        entry_tasks' = {[kind |-> "repository_for_path", path |-> path,
                         repository |-> repository_for_path_cursor(remote_snapshot, path)]}
    /\ UNCHANGED <<localVars, mirrorVars>>

NextRepositories ==
    \/ UpdateFromRepositoryHost
    \/ BackgroundApply
    \/ ForegroundPromote
    \/ RepositoryForPath

SpecRepositories == InitRemote /\ [][NextRepositories]_vars

\* the repositories whose work directory is a prefix of the path
Containing(s, path) == {r \in s.repositories : starts_with(path, r.path)}

\* C24: repository_for_path(p) returns, among all repositories in the index
\* whose work-directory path is a prefix of p, the one with the longest
\* work-directory path, and None when no work directory is a prefix of p.
DeepestRepository ==
    [][\A query \in entry_tasks' \ entry_tasks :
          /\ query.repository = repository_for_path(remote_snapshot, query.path)
          /\ IF Containing(remote_snapshot, query.path) = {}
             THEN query.repository = None
             ELSE
               /\ query.repository # None
               /\ Unwrap(query.repository) \in Containing(remote_snapshot, query.path)
               /\ \A r \in Containing(remote_snapshot, query.path) :
                    Len(r.path) <= Len(Unwrap(query.repository).path)]_vars

\* the repository of a/b has been returned for a path below it while five
\* of the paths of the tree, the root and a among them, hold repositories
DeepestRepositoryWitness ==
    /\ Cardinality(remote_snapshot.repositories) = 5
    /\ \E r \in remote_snapshot.repositories : r.path = EMPTY_PATH
    /\ \E r \in remote_snapshot.repositories : r.path = <<"a">>
    /\ \E query \in entry_tasks :
        /\ query.path = <<"a", "b", "d">>
        /\ query.repository # None
        /\ Unwrap(query.repository).path = <<"a", "b">>

\* ------------------------------------------------------------------------
\* BackgroundScannerState::insert_entry on states with removed entries
\* ------------------------------------------------------------------------
\* the files a and b as an earlier update has entered them, with ids 1 and
\* 2: b is another file or a hard link to a
EarlierEntries ==
    {{EntryNew(<<"a">>, [inode |-> 4, mtime |-> mtime_of_a, is_dir |-> FALSE], 1),
      EntryNew(<<"b">>, [inode |-> inode_of_b, mtime |-> 0, is_dir |-> FALSE], 2)} :
        inode_of_b \in {4, 5}, mtime_of_a \in {0, 1}}

RECURSIVE insert_entries(_, _)
\* BackgroundScannerState::insert_entry for each entry of a set
insert_entries(st, entries) ==
    IF entries = {} THEN st
    ELSE LET entry == CHOOSE x \in entries : \A y \in entries : x.id <= y.id
         IN insert_entries(scanner_insert_entry(st, entry, InitialFs), entries \ {entry})

RECURSIVE remove_paths(_, _)
\* BackgroundScannerState::remove_path for each path of a sequence
remove_paths(st, paths) ==
    IF paths = <<>> THEN st
    ELSE remove_paths(remove_path(st, Head(paths)), Tail(paths))

\* the scanner states in the middle of an update: some of the earlier
\* entries are present, some of them have been removed in this update
UpdatingStates ==
    {remove_paths(insert_entries(BackgroundScannerStateNew(InitialLocalSnapshot), present),
                  SortedPaths({x.path : x \in removed})) :
        <<present, removed>> \in
            {<<p, r>> \in (UNION {SUBSET E : E \in EarlierEntries}) \X
                          (UNION {SUBSET E : E \in EarlierEntries}) : r \subseteq p}}

\* the metadata of the path being inserted
InsertedMetadata ==
    {[inode |-> inode, mtime |-> mtime, is_dir |-> FALSE] : inode \in {4, 5}, mtime \in {0, 1}}

\* Entry::new followed by BackgroundScannerState::insert_entry
InsertEntry ==
    /\ entry_tasks = {}
    /\ \E path \in {<<"a">>, <<"b">>}, metadata \in InsertedMetadata :
        LET entry == EntryNew(path, metadata, next_entry_id)
        IN /\ state' = scanner_insert_entry(state, entry, fs)
           /\ next_entry_id' = next_entry_id + 1
           /\ entry_tasks' = {[kind |-> "insert_entry", state |-> state, entry |-> entry]}
    /\ UNCHANGED <<envVars, phase, scanner, scan_jobs, ignore_queue, workers, git_task,
                   scan_states, worktree, snapshots_rx, observer, mirrorVars>>

NextReuse == InsertEntry

InitReuse ==
    /\ fs = InitialFs
    /\ fs_events = {}
    /\ scan_requests = <<>>
    /\ budget = Moves(0, 0, 0)
    /\ num_cpus = 1
    /\ next_entry_id = 3
    /\ state \in UpdatingStates
    /\ phase = "Events"
    /\ scanner = ScannerIdle
    /\ scan_jobs = <<>>
    /\ ignore_queue = <<>>
    /\ workers = [w \in Workers |-> WorkerOff]
    /\ git_task = GitTaskOff
    /\ scan_states = <<>>
    /\ worktree = [snapshot |-> InitialLocalSnapshot, is_scanning |-> TRUE,
                   update_observer |-> FALSE, installed |-> 0, restarts |-> 0]
    /\ snapshots_rx = <<>>
    /\ observer = [is_first |-> TRUE, snapshot |-> None, serial |-> 0]
    /\ MirrorEmpty

SpecReuse == InitReuse /\ [][NextReuse]_vars

\* the entry of the same inode removed in the update the insertion is part
\* of, the entry present at the target path, the id the inserted entry has
SameInodeRemoved(task) == {r \in task.state.removed_entries : r.inode = task.entry.inode}
PresentAtPath(task) == entry_for_path(task.state.snapshot, task.entry.path)
InsertedId(task) == Unwrap(entry_for_path(state.snapshot, task.entry.path)).id
Matches(task, r) == r.mtime = task.entry.mtime \/ r.path = task.entry.path

DirectoryEntries ==
    {[EntryNew(path, [inode |-> 10 + id, mtime |-> 0, is_dir |-> TRUE], id) EXCEPT
        !.is_external = is_external,
        !.is_ignored = is_ignored,
        !.is_always_included = is_always_included] :
        path \in {<<"a">>, <<"a", "b">>, <<"a", DOT_GIT>>, <<LocalSettingsFolder>>},
        id \in 1..2,
        is_external \in BOOLEAN, is_ignored \in BOOLEAN, is_always_included \in BOOLEAN}

\* the scanner states the question is asked in: directory 1 scanned or not,
\* a/b/a asked for by a scan request or not, the prefix a/b registered or not
ScanningStates ==
    {[BackgroundScannerStateNew(InitialLocalSnapshot) EXCEPT
        !.scanned_dirs = scanned_dirs,
        !.paths_to_scan = paths_to_scan,
        !.path_prefixes_to_scan = path_prefixes_to_scan] :
        scanned_dirs \in SUBSET {1},
        paths_to_scan \in SUBSET {<<"a", "b", "a">>},
        path_prefixes_to_scan \in SUBSET {<<"a", "b">>}}

\* a caller (scan_dir, reload_entries_for_paths, update_ignore_status) asks
\* whether a directory is to be scanned
ShouldScanDirectory ==
    /\ \E st \in ScanningStates, entry \in DirectoryEntries :
        entry_tasks' = {[kind |-> "should_scan_directory", state |-> st, entry |-> entry,
                         returned |-> should_scan_directory(st, entry)]}
    /\ UNCHANGED <<localVars, mirrorVars>>

NextShouldScan == ShouldScanDirectory

SpecShouldScan == InitRemote /\ [][NextShouldScan]_vars

\* C25: should_scan_directory(entry) is true exactly when at least one
\* holds: (the entry is not external and not ignored) or the entry is
\* always-included; its file name is .git; its file name is the
\* local-settings folder; its id is in scanned_dirs; some enqueued
\* path-to-scan starts with the entry's path; some registered path prefix is
\* a prefix of the entry's path.
ShouldScanTruthTable ==
    \A query \in entry_tasks :
        query.returned =
            (\/ (~query.entry.is_external /\ ~query.entry.is_ignored)
             \/ query.entry.is_always_included
             \/ file_name(query.entry.path) = DOT_GIT
             \/ file_name(query.entry.path) = LocalSettingsFolder
             \/ query.entry.id \in query.state.scanned_dirs
             \/ \E p \in query.state.paths_to_scan : starts_with(p, query.entry.path)
             \/ \E p \in query.state.path_prefixes_to_scan : starts_with(query.entry.path, p))

\* ------------------------------------------------------------------------
\* LocalSnapshot::build_update, vector by vector
\* ------------------------------------------------------------------------
\* Vec::sort_unstable_by_key; this variant leaves the vector as it is
unsorted(seq, key) == seq

\* Vec::sort_unstable_by_key: key[i] is the key of seq[i]; the result is
\* ascending by key, elements with equal keys in some order
sort_unstable_by_key(seq, key) ==
    LET rank(i) == 1 + Cardinality({j \in DOMAIN seq :
                                      key[j] < key[i] \/ (key[j] = key[i] /\ j < i)})
    IN [r \in DOMAIN seq |-> seq[CHOOSE i \in DOMAIN seq : rank(i) = r]]

RECURSIVE binary_search_from(_, _, _, _)
\* slice::binary_search_by_key(..).is_ok() between two bounds: the middle
\* element is compared and one half is kept
binary_search_from(keys, key, low, high) ==
    IF low >= high THEN FALSE
    ELSE LET mid == low + ((high - low) \div 2)
         IN IF keys[mid + 1] = key THEN TRUE
            ELSE IF keys[mid + 1] < key
            THEN binary_search_from(keys, key, mid + 1, high)
            ELSE binary_search_from(keys, key, low, mid)

\* the vectors of build_update: pushed in the order of the change sets,
\* sorted, and the removed ids that are found among the updated ones dropped
build_update_vectors(ls, entry_changes, repo_changes) ==
    LET pushed_removed == SelectSeq(entry_changes, LAMBDA c : c.change = "Removed")
        pushed_updated == SelectSeq(entry_changes,
                            LAMBDA c : c.change # "Removed" /\ entry_for_id(ls, c.id) # None)
        new_repo(c) == repository(ls, c.path)
        pushed_repositories == SelectSeq(repo_changes, LAMBDA c : new_repo(c) # None)
        pushed_removed_repositories ==
            SelectSeq(repo_changes, LAMBDA c : c.old_repository # None /\ new_repo(c) = None)
        removed_entries ==
            sort_unstable_by_key([i \in DOMAIN pushed_removed |-> pushed_removed[i].id],
                                 [i \in DOMAIN pushed_removed |-> pushed_removed[i].id])
        updated_entries ==
            sort_unstable_by_key(
                [i \in DOMAIN pushed_updated |->
                    proto_entry_from(Unwrap(entry_for_id(ls, pushed_updated[i].id)))],
                [i \in DOMAIN pushed_updated |-> pushed_updated[i].id])
        removed_repositories ==
            sort_unstable_by_key(
                [i \in DOMAIN pushed_removed_repositories |->
                    Unwrap(pushed_removed_repositories[i].old_repository).work_directory_id],
                [i \in DOMAIN pushed_removed_repositories |->
                    Unwrap(pushed_removed_repositories[i].old_repository).work_directory_id])
        updated_repositories ==
            sort_unstable_by_key(
                [i \in DOMAIN pushed_repositories |->
                    IF pushed_repositories[i].old_repository # None
                    THEN repository_build_update(Unwrap(new_repo(pushed_repositories[i])),
                                                 Unwrap(pushed_repositories[i].old_repository))
                    ELSE repository_initial_update(Unwrap(new_repo(pushed_repositories[i])))],
                [i \in DOMAIN pushed_repositories |->
                    Unwrap(new_repo(pushed_repositories[i])).work_directory_id])
        updated_ids == [i \in DOMAIN updated_entries |-> updated_entries[i].id]
    IN [updated_entries |-> updated_entries,
        removed_entries |->
            SelectSeq(removed_entries,
                      LAMBDA id : ~binary_search_from(updated_ids, id, 0, Len(updated_ids))),
        scan_id |-> ls.scan_id,
        is_last_update |-> (ls.completed_scan_id = ls.scan_id),
        updated_repositories |-> updated_repositories,
        removed_repositories |-> removed_repositories]

\* the directories a and b: the id of b is the smaller one
UpdateDirectories ==
    {EntryNew(<<"a">>, [inode |-> 4, mtime |-> 0, is_dir |-> TRUE], 2),
     EntryNew(<<"b">>, [inode |-> 5, mtime |-> 0, is_dir |-> TRUE], 1)}

\* the repository of a directory
RepositoryOf(entry, statuses) ==
    [work_directory_id |-> entry.id, path |-> entry.path, location_in_repo |-> None,
     branch |-> NoBranch, statuses_by_path |-> statuses]

\* the snapshots build_update is called on: both directories, repositories
\* in some of them, the scan complete or not
UpdateSnapshots ==
    {[insert_entries(BackgroundScannerStateNew(InitialLocalSnapshot),
                     UpdateDirectories).snapshot EXCEPT
        !.repositories = {RepositoryOf(e, {}) : e \in work_directories},
        !.scan_id = 1,
        !.completed_scan_id = completed_scan_id] :
        work_directories \in SUBSET UpdateDirectories, completed_scan_id \in 0..1}

\* a change of the entry set
EntryChanges ==
    [path : {<<"a">>, <<"b">>}, id : 1..MaxEntryId, change : {"Removed", "Added", "Updated"}]

\* the entry change sets: at most two changes, ordered by path
UpdatedEntriesSets ==
    {<<>>} \cup {<<c>> : c \in EntryChanges}
           \cup {<<c, d>> : <<c, d>> \in {x \in EntryChanges \X EntryChanges :
                                            ~PathLess(x[2].path, x[1].path)}}

\* the repository change sets: for each directory no change, a change
\* without an old repository or a change with one
UpdatedGitRepositoriesSets ==
    {SortedByPath(S) :
        S \in {T \in SUBSET ({[path |-> e.path, old_repository |-> None] :
                                    e \in UpdateDirectories}
                               \cup {[path |-> e.path,
                                      old_repository |-> Some(RepositoryOf(e, {}))] :
                                        e \in UpdateDirectories}) :
                \A x, y \in T : x.path = y.path => x = y}}

\* a caller builds an update
BuildUpdate ==
    /\ entry_tasks = {}
    /\ \E ls \in UpdateSnapshots, entry_changes \in UpdatedEntriesSets,
          repo_changes \in UpdatedGitRepositoriesSets :
        entry_tasks' = {[kind |-> "build_update", snapshot |-> SnapshotOf(ls),
                         entry_changes |-> entry_changes, repo_changes |-> repo_changes,
                         update |-> build_update_vectors(ls, entry_changes, repo_changes),
                         sets |-> build_update(ls, WorktreeIdOfHost, entry_changes, repo_changes)]}
    /\ UNCHANGED <<localVars, mirrorVars>>

NextBuildUpdate == BuildUpdate

SpecBuildUpdate == InitRemote /\ [][NextBuildUpdate]_vars

\* C29: the UpdateWorktree produced by LocalSnapshot::build_update is well
\* formed: updated_entries is sorted ascending by id, removed_entries is
\* sorted ascending and contains no id that also occurs in updated_entries,
\* updated_repositories is sorted by work_directory_id, removed_repositories
\* is sorted, and is_last_update is true exactly when completed_scan_id =
\* scan_id.
UpdateWellFormed ==
    \A task \in entry_tasks :
        LET update == task.update
        IN /\ NonDecreasing([i \in DOMAIN update.updated_entries |->
                                update.updated_entries[i].id])
           /\ NonDecreasing(update.removed_entries)
           /\ \A i \in DOMAIN update.removed_entries, j \in DOMAIN update.updated_entries :
                update.removed_entries[i] # update.updated_entries[j].id
           /\ NonDecreasing([i \in DOMAIN update.updated_repositories |->
                                update.updated_repositories[i].work_directory_id])
           /\ NonDecreasing(update.removed_repositories)
           /\ update.is_last_update = (task.snapshot.completed_scan_id = task.snapshot.scan_id)
           /\ Range(update.updated_entries) = Range(task.sets.updated_entries)
           /\ Range(update.removed_entries) = Range(task.sets.removed_entries)
           /\ update.updated_repositories = task.sets.updated_repositories
           /\ update.removed_repositories = task.sets.removed_repositories

\* an update has been built from changes pushed in descending id order: b
\* removed under id 2 and a updated under id 2, both repositories updated
UpdateWellFormedWitness ==
    \E task \in entry_tasks :
        /\ Len(task.entry_changes) = 2
        /\ task.entry_changes[1].change = "Updated"
        /\ task.entry_changes[1].id = 2
        /\ task.entry_changes[2].change = "Removed"
        /\ task.entry_changes[2].id = 2
        /\ task.update.removed_entries = <<>>
        /\ Len(task.update.updated_repositories) = 2
        /\ task.update.updated_repositories[1].work_directory_id = 1

\* ------------------------------------------------------------------------
\* BackgroundScanner::build_change_set on pairs of snapshots
\* ------------------------------------------------------------------------
\* the paths of the compared snapshots, in path order
ComparedPaths == <<EMPTY_PATH, <<"a">>, <<"a", "b">>, <<"b">> >>

\* an entry of a compared snapshot
ComparedEntry(path, id, kind, mtime) ==
    [EntryNew(path, [inode |-> id, mtime |-> mtime, is_dir |-> kind # "File"], id)
        EXCEPT !.kind = kind]

\* the root entry, the same in every compared snapshot
ComparedRoot == ComparedEntry(EMPTY_PATH, 7, "Dir", 0)

\* the entry sets of the snapshots before: a is absent, loaded or unloaded,
\* a/b is there only below a loaded a, b is absent or loaded
OldEntrySets ==
    {{ComparedRoot} \cup A \cup AB \cup B :
        <<A, AB, B>> \in
            {x \in (SUBSET {ComparedEntry(<<"a">>, 1, kind, 0) : kind \in {"Dir", "UnloadedDir"}})
                   \X (SUBSET {ComparedEntry(<<"a", "b">>, 2, "File", 0)})
                   \X (SUBSET {ComparedEntry(<<"b">>, 3, "Dir", 0)}) :
                /\ Cardinality(x[1]) <= 1
                /\ x[2] # {} => \E e \in x[1] : e.kind = "Dir"}}

\* the entry sets of the snapshots after: each entry may be gone, the same,
\* changed under its id, or replaced under a new id
NewEntrySets ==
    {{ComparedRoot} \cup A \cup AB \cup B :
        <<A, AB, B>> \in
            {x \in (SUBSET {ComparedEntry(<<"a">>, id, kind, mtime) :
                                id \in {1, 4}, kind \in {"Dir", "UnloadedDir"}, mtime \in 0..1})
                   \X (SUBSET {ComparedEntry(<<"a", "b">>, id, "File", mtime) :
                                id \in {2, 5}, mtime \in 0..1})
                   \X (SUBSET {ComparedEntry(<<"b">>, id, "Dir", 0) : id \in {3, 6}}) :
                /\ Cardinality(x[1]) <= 1
                /\ Cardinality(x[2]) <= 1
                /\ Cardinality(x[3]) <= 1
                /\ x[2] # {} => \E e \in x[1] : e.kind = "Dir"}}

\* the changed paths handed over: some of the paths, in path order
EventPathSets ==
    {SelectSeq(ComparedPaths, LAMBDA p : p \in S) : S \in SUBSET Range(ComparedPaths)}

\* send_status_update compares two snapshots in the initial scan or after it
BuildChangeSet ==
    /\ entry_tasks = {}
    /\ \E old \in OldEntrySets, new \in NewEntrySets, event_paths \in EventPathSets,
          scanner_phase \in {"InitialScan", "Events"} :
        entry_tasks' =
            {[kind |-> "build_change_set", old |-> old, new |-> new,
              event_paths |-> event_paths, phase |-> scanner_phase,
              changes |-> build_change_set([entries_by_path |-> old],
                                           [entries_by_path |-> new],
                                           event_paths, scanner_phase)]}
    /\ UNCHANGED <<localVars, mirrorVars>>

NextChangeSet == BuildChangeSet

SpecChangeSet == InitRemote /\ [][NextChangeSet]_vars

\* the entry of a set at a path
EntryAt(entries, path) ==
    IF \E e \in entries : e.path = path
    THEN Some(CHOOSE e \in entries : e.path = path)
    ELSE None

\* the changes a comparison reports for a path, in the order reported
ChangesAt(task, path) == SelectSeq(task.changes, LAMBDA c : c.path = path)

\* the comparison has reported a directory of both snapshots as loaded
ReportedLoaded(task, dir) ==
    /\ EntryAt(task.old, dir) # None
    /\ EntryAt(task.new, dir) # None
    /\ \E i \in DOMAIN task.changes :
        task.changes[i].path = dir /\ task.changes[i].change = "Loaded"

\* the changes the classification asks for at a path
Classified(task, path) ==
    LET old_entry == EntryAt(task.old, path)
        new_entry == EntryAt(task.new, path)
    IN IF old_entry # None /\ new_entry # None
       THEN IF Unwrap(old_entry).id # Unwrap(new_entry).id
            THEN <<Change(path, Unwrap(old_entry).id, "Removed"),
                   Change(path, Unwrap(new_entry).id, "Added")>>
            ELSE IF old_entry # new_entry
            THEN <<Change(path, Unwrap(new_entry).id,
                          IF Unwrap(old_entry).kind = "UnloadedDir"
                          THEN "Loaded" ELSE "Updated")>>
            ELSE <<>>
       ELSE IF old_entry # None
       THEN <<Change(path, Unwrap(old_entry).id, "Removed")>>
       ELSE IF new_entry # None
       THEN <<Change(path, Unwrap(new_entry).id,
                     IF \/ task.phase = "InitialScan"
                        \/ \E dir \in Range(ComparedPaths) :
                            starts_with(path, dir) /\ ReportedLoaded(task, dir)
                     THEN "Loaded" ELSE "Added")>>
       ELSE <<>>

\* the path is one of the changed paths or below one
Covered(task, path) ==
    \E i \in DOMAIN task.event_paths : starts_with(path, task.event_paths[i])

\* C30: build_change_set in phases InitialScan and Events, for every pair of
\* snapshots and every set of changed paths: a path in both snapshots with
\* the same id and different contents yields Updated (Loaded when the old
\* kind was UnloadedDir); a path in both with different ids yields Removed
\* for the old id followed by Added for the new id; a path only in the old
\* snapshot yields Removed; a path only in the new snapshot yields Loaded
\* during the initial scan or below a directory just reported as Loaded,
\* and Added otherwise; an entry identical in both snapshots yields no
\* change.  The paths are those at or below a changed path; a path outside
\* them is either not reported or reported the same way.
ChangeSetClassified ==
    \A task \in entry_tasks :
        /\ \A path \in Range(ComparedPaths) :
            IF Covered(task, path)
            THEN ChangesAt(task, path) = Classified(task, path)
            ELSE ChangesAt(task, path) \in {<<>>, Classified(task, path)}
        /\ \A i \in DOMAIN task.changes : task.changes[i].path \in Range(ComparedPaths)

\* in phase Events the changed paths a and b were compared: a was unloaded
\* and is loaded, a/b is new below it, b has another id
ChangeSetClassifiedWitness ==
    \E task \in entry_tasks :
        /\ task.phase = "Events"
        /\ task.event_paths = << <<"a">>, <<"b">> >>
        /\ task.changes = <<Change(<<"a">>, 1, "Loaded"),
                            Change(<<"a", "b">>, 2, "Loaded"),
                            Change(<<"b">>, 3, "Removed"),
                            Change(<<"b">>, 6, "Added")>>

\* ------------------------------------------------------------------------
\* LocalWorktree::refresh_entry and the barrier of its request
\* ------------------------------------------------------------------------
\* refresh_entry(a, None) once the file system is at rest: the request is
\* sent with the barrier and the task that waits for it is spawned
RefreshEntry ==
    /\ entry_tasks = {}
    /\ budget.fs_ops = 0
    /\ fs_events = {}
    /\ scan_requests' = Append(scan_requests,
                               [relative_paths |-> << <<"a">> >>, done |-> {"refresh_entry"}])
    /\ entry_tasks' = {CreateTask("refresh_entry", "wait", <<"a">>, worktree.snapshot.scan_id)}
    /\ UNCHANGED <<fs, fs_events, budget, num_cpus, scannerVars, worktree, snapshots_rx,
                   observer, mirrorVars>>

\* the task of refresh_entry after refresh.recv(): the entry is read from
\* the worktree
RefreshEntryRead ==
    /\ \E t \in entry_tasks :
        /\ t.kind = "refresh_entry" /\ t.pc = "released"
        /\ entry_tasks' = (entry_tasks \ {t}) \cup
                {[t EXCEPT !.pc = "done",
                           !.result = IF entry_for_path(worktree.snapshot, t.path) # None
                                      THEN "ok" ELSE "err"]}
    /\ UNCHANGED <<localVars, mirrorVars>>

BarrierEnvironments ==
    {[cpus |-> 2, moves |-> Moves(0, 0, 0)],
     [cpus |-> 1, moves |-> Moves(1, 1, 0)]}

InitBarrier ==
    /\ \E e \in BarrierEnvironments : InitLocal(e.cpus, e.moves)
    /\ MirrorEmpty

NextBarrier ==
    \/ NextScanner
    \/ RefreshEntry
    \/ RefreshEntryRead

SpecBarrier == InitBarrier /\ [][NextBarrier]_vars

\* C35: under every interleaving of scanner workers and foreground tasks,
\* when the barrier of a refresh request is released while the scanner is
\* alive, the facade has already installed a snapshot taken after that
\* request's paths were reloaded, so a read of the facade snapshot made right
\* after the release reflects the request: the file system being at rest
\* since the request, the path has an entry in the facade snapshot exactly
\* when it exists on the file system.
BarrierReflectsRequest ==
    \A t \in entry_tasks :
        (t.kind = "refresh_entry" /\ t.pc = "released")
            => (entry_for_path(worktree.snapshot, t.path) # None)
                    = (fs_metadata(fs, t.path) # None)

\* ------------------------------------------------------------------------
\* build_change_set in phase EventsReceivedDuringInitialScan
\* ------------------------------------------------------------------------
\* send_status_update compares two snapshots while events that arrived
\* during the initial scan are processed
BuildChangeSetDuringScan ==
    /\ entry_tasks = {}
    /\ \E old \in OldEntrySets, new \in NewEntrySets, event_paths \in EventPathSets :
        entry_tasks' =
            {[kind |-> "build_change_set", old |-> old, new |-> new,
              event_paths |-> event_paths, phase |-> "EventsReceivedDuringInitialScan",
              changes |-> build_change_set([entries_by_path |-> old],
                                           [entries_by_path |-> new],
                                           event_paths, "EventsReceivedDuringInitialScan")]}
    /\ UNCHANGED <<localVars, mirrorVars>>

NextChangeSetDuringScan == BuildChangeSetDuringScan

SpecChangeSetDuringScan == InitRemote /\ [][NextChangeSetDuringScan]_vars

\* the path is in both snapshots of the comparison
InBoth(task, path) == EntryAt(task.old, path) # None /\ EntryAt(task.new, path) # None

\* C31 as stated: build_change_set in phase EventsReceivedDuringInitialScan:
\* a path present in both snapshots with the same id and different contents
\* is reported as Updated (Loaded when the old kind was UnloadedDir), and
\* AddedOrUpdated is emitted only for a path whose id differs between the
\* two snapshots.
DuringScanUpdated ==
    \A task \in entry_tasks :
        /\ \A path \in Range(ComparedPaths) :
            (/\ Covered(task, path)
             /\ InBoth(task, path)
             /\ Unwrap(EntryAt(task.old, path)).id = Unwrap(EntryAt(task.new, path)).id
             /\ EntryAt(task.old, path) # EntryAt(task.new, path))
                => ChangesAt(task, path) =
                    <<Change(path, Unwrap(EntryAt(task.new, path)).id,
                             IF Unwrap(EntryAt(task.old, path)).kind = "UnloadedDir"
                             THEN "Loaded" ELSE "Updated")>>
        /\ \A i \in DOMAIN task.changes :
            task.changes[i].change = "AddedOrUpdated"
                => /\ InBoth(task, task.changes[i].path)
                   /\ Unwrap(EntryAt(task.old, task.changes[i].path)).id
                        # Unwrap(EntryAt(task.new, task.changes[i].path)).id

\* C31 amended: build_change_set in phase EventsReceivedDuringInitialScan:
\* a path present in both snapshots is reported as AddedOrUpdated whatever
\* its id and contents, preceded by Removed for the old id when the ids
\* differ; Updated and Loaded are not emitted, and AddedOrUpdated is
\* emitted only for a path of both snapshots.
DuringScanAddedOrUpdated ==
    \A task \in entry_tasks :
        /\ \A path \in Range(ComparedPaths) :
            InBoth(task, path) =>
                LET old_entry == Unwrap(EntryAt(task.old, path))
                    new_entry == Unwrap(EntryAt(task.new, path))
                    pushed == (IF old_entry.id # new_entry.id
                               THEN <<Change(path, old_entry.id, "Removed")>> ELSE <<>>)
                                \o <<Change(path, new_entry.id, "AddedOrUpdated")>>
                IN IF Covered(task, path)
                   THEN ChangesAt(task, path) = pushed
                   ELSE ChangesAt(task, path) \in {<<>>, pushed}
        /\ \A i \in DOMAIN task.changes :
            /\ task.changes[i].change \notin {"Updated", "Loaded"}
            /\ task.changes[i].change = "AddedOrUpdated"
                => InBoth(task, task.changes[i].path)

\* the changed paths a and b were compared during the initial scan: a has
\* its id and other contents, a/b is the same in both snapshots, b has
\* another id
DuringScanAddedOrUpdatedWitness ==
    \E task \in entry_tasks :
        /\ task.phase = "EventsReceivedDuringInitialScan"
        /\ task.event_paths = << <<"a">>, <<"b">> >>
        /\ EntryAt(task.old, <<"a", "b">>) = EntryAt(task.new, <<"a", "b">>)
        /\ EntryAt(task.old, <<"a">>) # EntryAt(task.new, <<"a">>)
        /\ task.changes = <<Change(<<"a">>, 1, "AddedOrUpdated"),
                            Change(<<"a", "b">>, 2, "AddedOrUpdated"),
                            Change(<<"b">>, 3, "Removed"),
                            Change(<<"b">>, 6, "AddedOrUpdated")>>

\* ------------------------------------------------------------------------
\* A local worktree whose repositories lose their .git directory
\* ------------------------------------------------------------------------
\* the .git directory of the root is deleted with everything in it
FsRemoveDotGit ==
    /\ budget.fs_ops > 0
    /\ fs.nodes[DOT_GIT] # None
    /\ fs' = [fs EXCEPT !.nodes[DOT_GIT] = None, !.statuses = {}]
    /\ budget' = [budget EXCEPT !.fs_ops = @ - 1]
    /\ fs_events' = fs_events \cup {<<DOT_GIT>>}
    /\ UNCHANGED <<scan_requests, num_cpus, scannerVars, worktree, snapshots_rx, observer,
                   remoteVars>>

DotGitEnvironments ==
    {[fs |-> EmptyFs, cpus |-> 2, moves |-> Moves(2, 1, 0)],
     [fs |-> InitialFs, cpus |-> 1, moves |-> Moves(2, 0, 0)]}

InitDotGit ==
    /\ \E e \in DotGitEnvironments : InitLocalOn(e.fs, e.cpus, e.moves)
    /\ MirrorEmpty

NextDotGit ==
    \/ NextNested
    \/ FsRemoveDotGit

SpecDotGit == InitDotGit /\ [][NextDotGit]_vars

\* the .git directory of a repository exists on the file system
DotGitExists(g) == fs_metadata(fs, join(g.path, DOT_GIT)) # None

\* the step of update_git_repositories drops a repository
DropsRepository(g) ==
    /\ g \in state.snapshot.git_repositories
    /\ \A h \in state'.snapshot.git_repositories : h.work_directory_id # g.work_directory_id

\* a known repository whose .git was touched by the batch and still exists
\* is reloaded: the branch is the one git reports, the scan ids are current
ReloadsRepositories ==
    \A g \in state.snapshot.git_repositories :
        (join(g.path, DOT_GIT) \in Range(scanner.dot_git_abs_paths) /\ DotGitExists(g))
            => /\ \E h \in state'.snapshot.git_repositories :
                    /\ h.work_directory_id = g.work_directory_id
                    /\ h.git_dir_scan_id = state.snapshot.scan_id
                    /\ h.status_scan_id = state.snapshot.scan_id
               /\ \A r \in state'.snapshot.repositories :
                    r.work_directory_id = g.work_directory_id => r.branch = fs.branch

\* C34 as stated: update_git_repositories drops a repository exactly when
\* its .git no longer exists and its work-directory entry is gone from the
\* path tree; a repository whose work-directory entry is still present is
\* kept, and a known repository whose .git still exists has its branch
\* reloaded and its git_dir_scan_id and status_scan_id set to the current
\* scan_id.
DropsWithoutWorkDirectory ==
    [][ScannerUpdateGitRepositories =>
          /\ \A g \in state.snapshot.git_repositories :
                DropsRepository(g) <=>
                    /\ ~DotGitExists(g)
                    /\ entry_for_id(state.snapshot, g.work_directory_id) = None
          /\ ReloadsRepositories]_vars

\* the path tree holds the work-directory entry of a repository and the
\* .git entry below it
DotGitInPathTree(g) ==
    /\ entry_for_id(state.snapshot, g.work_directory_id) # None
    /\ entry_for_path(state.snapshot,
                      join(Unwrap(entry_for_id(state.snapshot, g.work_directory_id)).path,
                           DOT_GIT)) # None

\* C34 amended: update_git_repositories drops a repository exactly when its
\* .git no longer exists on the file system and the path tree does not hold
\* both its work-directory entry and the .git entry below it; a repository
\* whose work-directory entry and .git entry are both in the path tree is
\* kept, and a known repository whose .git still exists has its branch
\* reloaded and its git_dir_scan_id and status_scan_id set to the current
\* scan_id.
DropsWithoutDotGit ==
    [][ScannerUpdateGitRepositories =>
          /\ \A g \in state.snapshot.git_repositories :
                DropsRepository(g) <=> (~DotGitExists(g) /\ ~DotGitInPathTree(g))
          /\ ReloadsRepositories]_vars

\* the .git directory of the root was deleted and update_git_repositories
\* has dropped the repository of the root, whose entry is in the path tree
DropsWithoutDotGitWitness ==
    /\ scanner.pc = "update_git_repositories"
    /\ fs.nodes[DOT_GIT] = None
    /\ entry_for_path(state.snapshot, EMPTY_PATH) # None
    /\ state.snapshot.git_repositories = {}
    /\ state.snapshot.repositories = {}
    /\ worktree.snapshot.repositories # {}

\* ------------------------------------------------------------------------
\* A local worktree whose root .gitignore ignores the directory build
\* ------------------------------------------------------------------------
\* .gitignore is rewritten and now contains build/
FsIgnoreBuild ==
    /\ budget.fs_ops > 0
    /\ fs.ignored = {}
    /\ fs.nodes[GITIGNORE] # None
    /\ fs.nodes["build"] = None
    /\ fs' = [fs EXCEPT !.ignored = {"build"},
                        !.nodes[GITIGNORE] = Some([Unwrap(@) EXCEPT !.mtime = @ + 1])]
    /\ budget' = [budget EXCEPT !.fs_ops = @ - 1]
    /\ fs_events' = fs_events \cup {<<GITIGNORE>>}
    /\ UNCHANGED <<scan_requests, num_cpus, scannerVars, worktree, snapshots_rx, observer,
                   remoteVars>>

\* build/x is created, and build with it; the event of build is reported,
\* the event of build/x with it or later
FsCreateBuild ==
    /\ budget.fs_ops > 0
    /\ "build" \in fs.ignored
    /\ fs.nodes["build"] = None
    /\ fs' = [fs EXCEPT !.nodes["build"] = Some([inode |-> 9, mtime |-> 0, is_dir |-> TRUE])]
    /\ budget' = [budget EXCEPT !.fs_ops = @ - 1]
    /\ \E reported \in {{<<"build">>}, {<<"build">>, BuildFile}} :
        fs_events' = fs_events \cup reported
    /\ UNCHANGED <<scan_requests, num_cpus, scannerVars, worktree, snapshots_rx, observer,
                   remoteVars>>

\* the event of build/x is reported
FsBuildFileEvent ==
    /\ budget.fs_ops > 0
    /\ fs.nodes["build"] # None
    /\ BuildFile \notin fs_events
    /\ budget' = [budget EXCEPT !.fs_ops = @ - 1]
    /\ fs_events' = fs_events \cup {BuildFile}
    /\ UNCHANGED <<fs, scan_requests, num_cpus, scannerVars, worktree, snapshots_rx, observer,
                   remoteVars>>

\* the watcher reports src/a.txt, of which nothing is left on the file
\* system: src was created and deleted again with its contents
FsStrayEvent ==
    /\ budget.fs_ops > 0
    /\ fs.nodes["src"] = None
    /\ SrcFile \notin fs_events
    /\ budget' = [budget EXCEPT !.fs_ops = @ - 1]
    /\ fs_events' = fs_events \cup {SrcFile}
    /\ UNCHANGED <<fs, scan_requests, num_cpus, scannerVars, worktree, snapshots_rx, observer,
                   remoteVars>>

IgnoreEnvironments ==
    {[cpus |-> 1, moves |-> Moves(3, 0, 0)],
     [cpus |-> 2, moves |-> Moves(0, 1, 0)]}

InitIgnore ==
    /\ \E e \in IgnoreEnvironments : InitLocal(e.cpus, e.moves)
    /\ MirrorEmpty

NextIgnore ==
    \/ NextScanner
    \/ FsIgnoreBuild
    \/ FsCreateBuild
    \/ FsBuildFileEvent
    \/ FsStrayEvent

SpecIgnore == InitIgnore /\ [][NextIgnore]_vars

\* build/x has been created and every batch it caused has completed
BuildSettled ==
    /\ fs.nodes["build"] # None
    /\ "build" \in fs.ignored
    /\ fs_events = {}
    /\ scanner.pc = "idle"

\* C32: with a root .gitignore containing build/ and no inclusion pattern,
\* path prefix or refresh request targeting it, after build/x is created and
\* the batch completes, build is present as a directory entry with
\* is_ignored = true and is_always_included = false, it is not scanned, and
\* the path tree holds no entry below build (at no time, not only when the
\* batch has completed).
IgnorePropagation ==
    /\ BuildSettled =>
        LET build == entry_for_path(state.snapshot, <<"build">>)
        IN /\ build # None
           /\ kind_is_dir(Unwrap(build).kind)
           /\ Unwrap(build).is_ignored
           /\ ~Unwrap(build).is_always_included
           /\ Unwrap(build).kind = "UnloadedDir"
           /\ Unwrap(build).id \notin state.scanned_dirs
    /\ \A e \in state.snapshot.entries_by_path :
        e.path # <<"build">> => ~starts_with(e.path, <<"build">>)
    /\ \A i \in DOMAIN scan_jobs : ~starts_with(scan_jobs[i].path, <<"build">>)

\* .gitignore was rewritten, build/x was created, the file system changes
\* of the run have all happened and every batch has completed
IgnorePropagationWitness ==
    /\ BuildSettled
    /\ budget.fs_ops = 0
    /\ num_cpus = 1
    /\ entry_for_path(state.snapshot, <<"build">>) # None
    /\ entry_for_path(worktree.snapshot, <<"build">>) # None

\* the parent directory of an event path is absent from the path tree or
\* is not a loaded directory
ParentNotLoaded(path) ==
    /\ parent(path) # None
    /\ \/ entry_for_path(state.snapshot, Unwrap(parent(path))) = None
       \/ Unwrap(entry_for_path(state.snapshot, Unwrap(parent(path)))).kind # "Dir"

\* C33: a file system event for a path whose parent directory is absent
\* from the path tree or is not a loaded directory is dropped: process_events
\* neither inserts nor removes an entry for it, and an event batch in which
\* every path is dropped and no path lies inside a .git directory leaves the
\* entries, scan_id and completed_scan_id unchanged and sends no status
\* update.
EventsBelowUnloadedDropped ==
    [][ScannerProcessEvents =>
          /\ \A path \in fs_events :
                ParentNotLoaded(path) =>
                    /\ entry_for_path(state'.snapshot, path)
                            = entry_for_path(state.snapshot, path)
                    /\ \A i \in DOMAIN scan_jobs' : scan_jobs'[i].path # path
          /\ (\A path \in fs_events :
                ParentNotLoaded(path) /\ dot_git_ancestor(path) = None)
                => /\ state'.snapshot.entries_by_path = state.snapshot.entries_by_path
                   /\ state'.snapshot.entries_by_id = state.snapshot.entries_by_id
                   /\ state'.snapshot.scan_id = state.snapshot.scan_id
                   /\ state'.snapshot.completed_scan_id = state.snapshot.completed_scan_id
                   /\ scan_states' = scan_states]_vars

\* the only change was the report of src/a.txt, whose parent is not in the
\* path tree: the batch has been taken and the scan ids are those of the
\* initial scan
EventsBelowUnloadedDroppedWitness ==
    /\ num_cpus = 1
    /\ budget.fs_ops = 2
    /\ fs = InitialFs
    /\ fs_events = {}
    /\ scanner.pc = "idle"
    /\ entry_for_path(state.snapshot, <<"src">>) = None
    /\ state.snapshot.scan_id = 2
    /\ state.snapshot.completed_scan_id = 2

\* ------------------------------------------------------------------------
\* Snapshot::insert_entry on any consistent snapshot
\* ------------------------------------------------------------------------
\* a consistent snapshot of a remote worktree holding the given entries
ConsistentSnapshot(S) ==
    [SnapshotNew(WorktreeIdOfHost, RootName, RootAbsPath) EXCEPT
        !.entries_by_path = {entry_try_from(p) : p \in S},
        !.entries_by_id = {PathEntry(p.id, p.path, p.is_ignored, 0) : p \in S}]

\* one Snapshot::insert_entry, as the task of RemoteWorktree::insert_entry
\* calls it with the entry of the host's response
SnapshotInsertEntry ==
    /\ entry_tasks = {}
    /\ \E S \in DistinctEntrySets, id \in ApplyIds, path \in ApplyPaths :
        entry_tasks' =
            {[kind |-> "snapshot_insert_entry", prior |-> ConsistentSnapshot(S),
              entry |-> ProtoEntryAt(id, path),
              snapshot |-> snapshot_insert_entry(ConsistentSnapshot(S),
                                                 ProtoEntryAt(id, path))]}
    /\ UNCHANGED <<localVars, mirrorVars>>

NextSnapshotInsertEntry == SnapshotInsertEntry

SpecSnapshotInsertEntry == InitRemote /\ [][NextSnapshotInsertEntry]_vars

\* C37: Snapshot::insert_entry keeps entries_by_path and entries_by_id
\* agreeing on the set of (path, id) pairs, for every consistent prior
\* snapshot and every entry, also when the entry's id exists at another
\* path and when the entry's path is held by an entry with another id
InsertEntryIndicesAgree ==
    \A task \in entry_tasks : IndicesAgree(task.prior) => IndicesAgree(task.snapshot)

\* ------------------------------------------------------------------------
\* The task of LocalWorktree::observe_updates: chunks, refusals and resumes
\* ------------------------------------------------------------------------
\* the moves of the facade's owner and of the callback
ObserverMoves(installs, resumes, refusals) ==
    [fs_ops |-> 0, refreshes |-> 0, restarts |-> 0,
     installs |-> installs, resumes |-> resumes, refusals |-> refusals]

\* the number of chunks an update is split into
ChunkCounts == {1, 2}

\* the chunks of the update built from a snapshot of the channel
Chunks(next, is_first, count) ==
    [i \in 1..count |->
        [serial |-> next.serial, index |-> i, is_last |-> (i = count), initial |-> is_first]]

\* the task _maintain_remote_snapshot; resume_updates is a watch channel,
\* whose receiver starts with the value of the channel unseen
MaintainRemoteSnapshot ==
    [kind |-> "maintain_remote_snapshot", pc |-> "recv", is_first |-> TRUE,
     chunks |-> <<>>, ix |-> 0, resume_updates |-> TRUE, signals |-> 0]

\* the callback is handed a chunk; signals counts the calls of
\* observe_updates that found the observer
Handed(t) ==
    [chunk |-> t.chunks[t.ix], result |-> "pending", called_at |-> t.signals, returned_at |-> 0]

\* the loop over the chunks begins a chunk; this variant leaves the resume
\* channel as it is
begin_chunk_keeping_resume(t) == [t EXCEPT !.pc = "await"]

\* the loop over the chunks begins a chunk: resume_updates_rx.try_recv()
\* marks the value of the channel seen, then the callback is called
begin_chunk(t) == [t EXCEPT !.pc = "await", !.resume_updates = FALSE]

\* LocalWorktree::observe_updates: with an observer, a resume is signalled;
\* without, the channel and the task are made.  A call that resumes a
\* waiting task is always possible, the others are counted.
ObserveUpdatesCall ==
    IF worktree.update_observer
    THEN /\ \E t \in entry_tasks :
              /\ IF t.pc = "wait" /\ ~t.resume_updates
                 THEN UNCHANGED budget
                 ELSE /\ budget.resumes > 0
                      /\ budget' = [budget EXCEPT !.resumes = @ - 1]
              /\ entry_tasks' = {[t EXCEPT !.resume_updates = TRUE, !.signals = @ + 1]}
         /\ UNCHANGED <<fs, fs_events, scan_requests, num_cpus, scannerVars, worktree,
                        snapshots_rx, observer, mirrorVars>>
    ELSE /\ worktree' = [worktree EXCEPT !.update_observer = TRUE, !.installed = 1]
         /\ snapshots_rx' = <<[snapshot |-> worktree.snapshot, entry_changes |-> <<>>,
                               repo_changes |-> <<>>, serial |-> 1]>>
         /\ entry_tasks' = {MaintainRemoteSnapshot}
         /\ UNCHANGED <<envVars, scannerVars, observer, mirrorVars>>

\* a snapshot is installed while the observer exists (the scan_state_updater
\* on an Updated message)
InstallSnapshot ==
    /\ worktree.update_observer
    /\ budget.installs > 0
    /\ budget' = [budget EXCEPT !.installs = @ - 1]
    /\ LET installed == set_snapshot(worktree,
                                     [worktree.snapshot EXCEPT !.scan_id = @ + 1,
                                                               !.completed_scan_id = @ + 1],
                                     <<>>)
       IN /\ worktree' = installed.worktree
          /\ snapshots_rx' = snapshots_rx \o installed.sent
    /\ UNCHANGED <<fs, fs_events, scan_requests, num_cpus, scannerVars, observer, remoteVars>>

\* the task takes the next snapshot of its channel, builds the update and
\* splits it
TaskNextSnapshot ==
    /\ \E t \in entry_tasks, count \in ChunkCounts :
        /\ t.pc = "recv"
        /\ snapshots_rx # <<>>
        /\ snapshots_rx' = Tail(snapshots_rx)
        /\ entry_tasks' = {[t EXCEPT !.pc = "chunk", !.is_first = FALSE,
                                     !.chunks = Chunks(Head(snapshots_rx), t.is_first, count),
                                     !.ix = 1]}
    /\ UNCHANGED <<envVars, scannerVars, worktree, observer, mirrorVars>>

\* the task begins a chunk and calls the callback
TaskSendChunk ==
    /\ \E t \in entry_tasks :
        /\ t.pc = "chunk"
        /\ entry_tasks' = {begin_chunk(t)}
        /\ delivered' = Append(delivered, Handed(t))
    /\ UNCHANGED <<localVars, background_snapshot, pending_updates, remote_snapshot,
                   updates_rx, snapshot_updated, update_observer, host, reflected,
                   updates_tx, snapshot_subscriptions, disconnected, awaiters>>

\* the future of the callback resolves: true goes on to the next chunk or
\* the next snapshot, false waits for a resume
CallbackReturns ==
    /\ \E t \in entry_tasks, result \in BOOLEAN :
        /\ t.pc = "await"
        /\ IF result THEN UNCHANGED budget
           ELSE /\ budget.refusals > 0
                /\ budget' = [budget EXCEPT !.refusals = @ - 1]
        /\ delivered' = [delivered EXCEPT
                            ![Len(delivered)].result = IF result THEN "accepted" ELSE "refused",
                            ![Len(delivered)].returned_at = t.signals]
        /\ entry_tasks' =
                {IF ~result THEN [t EXCEPT !.pc = "wait"]
                 ELSE IF t.ix = Len(t.chunks) THEN [t EXCEPT !.pc = "recv"]
                 ELSE [t EXCEPT !.pc = "chunk", !.ix = @ + 1]}
    /\ UNCHANGED <<fs, fs_events, scan_requests, num_cpus, scannerVars, worktree, snapshots_rx,
                   observer, background_snapshot, pending_updates, remote_snapshot,
                   updates_rx, snapshot_updated, update_observer, host, reflected,
                   updates_tx, snapshot_subscriptions, disconnected, awaiters>>

\* resume_updates_rx.next() yields: the value is seen and the callback is
\* called with the same chunk
TaskResumed ==
    /\ \E t \in entry_tasks :
        /\ t.pc = "wait"
        /\ t.resume_updates
        /\ entry_tasks' = {[t EXCEPT !.pc = "await", !.resume_updates = FALSE]}
        /\ delivered' = Append(delivered, Handed(t))
    /\ UNCHANGED <<localVars, background_snapshot, pending_updates, remote_snapshot,
                   updates_rx, snapshot_updated, update_observer, host, reflected,
                   updates_tx, snapshot_subscriptions, disconnected, awaiters>>

ObserverEnvironments == {ObserverMoves(2, 2, 2)}

InitObserver ==
    /\ \E moves \in ObserverEnvironments : InitLocal(1, moves)
    /\ MirrorEmpty

NextObserver ==
    \/ ObserveUpdatesCall
    \/ InstallSnapshot
    \/ TaskNextSnapshot
    \/ TaskSendChunk
    \/ CallbackReturns
    \/ TaskResumed

\* the task is waiting for a resume
Paused == \E t \in entry_tasks : t.pc = "wait"

\* the executor runs the task, the future of the callback resolves, and the
\* observer is resumed after each refusal
SpecObserver ==
    /\ InitObserver
    /\ [][NextObserver]_vars
    /\ WF_vars(TaskNextSnapshot)
    /\ WF_vars(TaskSendChunk)
    /\ WF_vars(TaskResumed)
    /\ WF_vars(CallbackReturns)
    /\ WF_vars(Paused /\ ObserveUpdatesCall)

\* the chunk after a chunk
NextChunk(c, d) ==
    IF c.is_last THEN d.serial = c.serial + 1 /\ d.index = 1
    ELSE d.serial = c.serial /\ d.index = c.index + 1

\* the chunks are handed in order, a refused one again and an accepted one
\* never again
HandedInOrder ==
    /\ delivered # <<>> => (delivered[1].chunk.serial = 1 /\ delivered[1].chunk.index = 1)
    /\ \A i \in 1..(Len(delivered) - 1) :
        /\ delivered[i].result # "pending"
        /\ delivered[i].result = "refused" => delivered[i + 1].chunk = delivered[i].chunk
        /\ delivered[i].result = "accepted" => NextChunk(delivered[i].chunk, delivered[i + 1].chunk)

\* every chunk of the snapshot with this serial has been accepted
AcceptedAll(serial) ==
    \E i \in DOMAIN delivered :
        /\ delivered[i].chunk.serial = serial
        /\ delivered[i].chunk.is_last
        /\ delivered[i].result = "accepted"

ObservedSerials == {1, 2, 3}

\* every snapshot installed is eventually accepted whole
AllAccepted ==
    \A serial \in ObservedSerials : (worktree.installed >= serial) ~> AcceptedAll(serial)

\* C39 as stated: after the callback has refused a chunk nothing is sent
\* until a resume is signalled by a further observe_updates call, then the
\* same chunk is sent again; every chunk of every installed snapshot is
\* eventually accepted exactly once and in order, the observer being
\* resumed after each refusal
PausedUntilResumed ==
    /\ [](/\ HandedInOrder
          /\ \A i \in 1..(Len(delivered) - 1) :
                delivered[i].result = "refused"
                    => delivered[i + 1].called_at > delivered[i].returned_at)
    /\ AllAccepted

\* C39: after the callback has refused a chunk nothing is sent until a
\* resume has been signalled by a further observe_updates call made since
\* that chunk was last handed to the callback (a call made while the
\* callback was running counts), then the same chunk is sent again; every
\* chunk of every installed snapshot is eventually accepted exactly once
\* and in order, the observer being resumed after each refusal
PausedUntilResumedSinceHanded ==
    /\ [](/\ HandedInOrder
          /\ \A i \in 1..(Len(delivered) - 1) :
                delivered[i].result = "refused"
                    => delivered[i + 1].called_at > delivered[i].called_at)
    /\ AllAccepted

\* three snapshots were sent; a chunk was refused twice in a row, once with
\* a resume signalled while the callback was running and once with the
\* task waiting for the resume; every chunk has been accepted
PausedUntilResumedSinceHandedWitness ==
    /\ \A serial \in ObservedSerials : AcceptedAll(serial)
    /\ \E i \in 1..(Len(delivered) - 2) :
        /\ delivered[i].result = "refused"
        /\ delivered[i + 1].called_at = delivered[i].returned_at
        /\ delivered[i + 1].result = "refused"
        /\ delivered[i + 2].called_at > delivered[i + 1].returned_at
    /\ \E i \in DOMAIN delivered : delivered[i].chunk.index = 2

\* ------------------------------------------------------------------------
\* The queue of subscriptions against the public snapshot
\* ------------------------------------------------------------------------
\* C36: in every state between foreground steps, every awaiter still queued
\* in snapshot_subscriptions has a target scan id greater than the public
\* snapshot's completed_scan_id, and the queue is sorted by target scan id;
\* the tasks of insert_entry and delete_entry, which copy the background
\* snapshot into the public snapshot, are foreground steps like any other
QueuedAwaitersAhead ==
    /\ \A i \in DOMAIN snapshot_subscriptions :
            snapshot_subscriptions[i].scan_id > remote_snapshot.completed_scan_id
    /\ \A i, j \in DOMAIN snapshot_subscriptions :
            i < j => snapshot_subscriptions[i].scan_id <= snapshot_subscriptions[j].scan_id

\* ------------------------------------------------------------------------
\* Termination of the scans under fair scheduling
\* ------------------------------------------------------------------------
TerminationEnvironments ==
    {[fs |-> RecursiveFs, cpus |-> 2, moves |-> Moves(1, 1, 0)]}

InitTermination ==
    /\ \E e \in TerminationEnvironments : InitLocalOn(e.fs, e.cpus, e.moves)
    /\ MirrorEmpty

\* the main task of the scanner can go on: it is at one place of run at a
\* time, and waits for the pool it started, for the status task or, idle,
\* for a request or an event
MainTaskReady ==
    \/ scanner.pc \in {"run", "poll_events"}
    \/ /\ scanner.pc \in {"scan_dirs_initial", "update_ignore_statuses", "scan_dirs"}
       /\ AllWorkers({"exited"})
    \/ /\ scanner.pc = "update_git_repositories"
       /\ git_task.pc = "done"
       /\ AllWorkers({"exited"})
    \/ /\ scanner.pc = "idle"
       /\ (scan_requests # <<>> \/ fs_events # {})

\* a task of the pool can go on: it is inside a request or a directory, or
\* an arm of its select is ready (a request, the progress timer with
\* changes to report, a job, or the closed job channel)
WorkerReady(w) ==
    \/ workers[w].pc \in {"request_bumped", "request_reloaded", "git_read", "git_write",
                          "dir_listed"}
    \/ /\ workers[w].pc = "select"
       /\ \/ scan_requests # <<>>
          \/ scanner.pc = "scan_dirs_initial" /\ state.changed_paths # {}
          \/ scanner.pc \in {"scan_dirs_initial", "scan_dirs"} /\ scan_jobs # <<>>
          \/ scanner.pc = "update_ignore_statuses" /\ ignore_queue # <<>>
          \/ /\ scanner.pc \in {"scan_dirs_initial", "scan_dirs"}
             /\ scan_jobs = <<>>
             /\ AllWorkers({"select", "exited", "request_bumped", "request_reloaded"})
          \/ scanner.pc = "update_ignore_statuses" /\ ignore_queue = <<>>
          \/ scanner.pc = "update_git_repositories" /\ git_task.pc = "done"

\* the status task of update_git_repositories can go on
GitTaskReady == git_task.pc \in {"read", "write"}

\* some task of the scanner can go on: this is the enabling condition of
\* the steps of the main task, of the pool and of the status task
ScannerTaskReady ==
    \/ MainTaskReady
    \/ \E w \in Workers : WorkerReady(w)
    \/ GitTaskReady

\* a step of a task of the scanner: it spends none of the budget, as the
\* steps of the file system and of the callers of refresh_entries_for_paths
\* do, and takes no message from the status channel, as the facade does
ScannerTaskStep ==
    /\ budget' = budget
    /\ Len(scan_states') >= Len(scan_states)

\* the executor runs a task that can go on: the facade's
\* scan_state_updater is weakly fair, and so are the steps of the tasks of
\* the scanner taken together (written out with their enabling condition);
\* the file system and the callers of refresh_entries_for_paths owe nothing
SpecTermination ==
    /\ InitTermination
    /\ [][NextScanner]_vars
    /\ WF_vars(ScanStateUpdater)
    /\ ([]<>(~ScannerTaskReady) \/ []<><<ScannerTaskStep>>_vars)

\* C38: on a finite file system, one with a recursive link included, every
\* scan terminates under fair scheduling: the link, whose inode is that of
\* its ancestor the root, is never a scan job; each ScanState::Started is
\* followed by an Updated with scanning = false, so that is_scanning, set
\* by the first and cleared by the second, always becomes false again and
\* scan_complete() resolves
ScansTerminate ==
    /\ [](\A i \in DOMAIN scan_jobs :
            scan_jobs[i].path = <<"d">> => fs.nodes["d"] # Some(RootMetadata))
    /\ (worktree.is_scanning ~> ~worktree.is_scanning)

\* the link "d" was met by the initial scan and was not followed, an event
\* batch has run after it, and the facade has seen the end of both scans
ScansTerminateWitness ==
    /\ fs.nodes["d"] = Some(RootMetadata)
    /\ entry_for_path(worktree.snapshot, <<"d">>) # None
    /\ entry_for_path(worktree.snapshot, <<"d", "a">>) = None
    /\ worktree.snapshot.completed_scan_id > 2
    /\ ~worktree.is_scanning
    /\ scan_states = <<>>

\* ---------------------------------------------------------------------
\* Directory entries of the snapshots sent when no scan is going on

\* C40: whenever the scanner emits a status update with scanning = false
\* (end of the initial scan, of an event batch, or of a refresh request
\* handled while idle), the emitted snapshot contains no entry of kind
\* PendingDir: every directory entry is either Dir or UnloadedDir
NoPendingDirWhenIdle ==
    \A i \in DOMAIN scan_states :
        (scan_states[i].type = "Updated" /\ ~scan_states[i].scanning)
            => \A e \in Unwrap(scan_states[i].snapshot).entries_by_path :
                    e.kind # "PendingDir"
====
